---- MODULE Spec2Model ----
(***************************************************************************)
(* Long-form transcription pipeline of visju_app:                          *)
(*   backend/app/services/transcription_service.py  (TranscriptionService) *)
(*   backend/app/api/transcription_router.py        (transcribe_audio_file)*)
(*                                                                         *)
(* Text is a sequence of one-character strings, so that split(), strip()   *)
(* and " ".join() are computed and not assumed.  Times are exact: a time   *)
(* is a whole number of ticks, TicksPerSecond ticks to the second, two     *)
(* ticks to the sample period, so that a configured length need not be a   *)
(* whole number of samples and int(length * sample_rate) truncates.        *)
(***************************************************************************)
EXTENDS Integers, Sequences, FiniteSets, TLC

VARIABLES
    \* TranscriptionService instance attributes
    chunk_length,       \* self.chunk_length, in ticks
    overlap_length,     \* self.overlap_length, in ticks
    model,              \* self.model is not None
    processor,          \* self.processor is not None
    \* _create_audio_chunks frame
    audio_len,          \* len(audio), in samples
    chunks,             \* the list being built
    start_sample,       \* the loop variable
    cpc,                \* position in _create_audio_chunks
    \* transcribe_audio frame
    spc,                \* position in transcribe_audio
    sfile,              \* the audio file the call is about
    si,                 \* index of the chunk of the for loop (1-based)
    segments,           \* segments
    full_text_parts,    \* full_text_parts
    sresult,            \* the value returned (or NoResult)
    strace,             \* phases passed and chunks handed to inference, in order
    ncalls,             \* calls of transcribe_audio made so far
    loads,              \* number of from_pretrained model loads started
    slog,               \* loads, unloads and returned calls of the service, in order
    \* transcription_router / database / file system
    converted,          \* filenames present in audio_files/converted
    originals,          \* filenames present in audio_files/originals
    sessions,           \* committed rows of table sessions, in insertion order
    transcripts,        \* committed rows of table transcripts, in insertion order
    req,                \* one record per request: its locals and its outcome
    \* FileMonitorService instance attributes, its clock and the Drive folder
    known_files,        \* self.known_files
    file_sizes,         \* self.file_sizes
    file_timestamps,    \* self.file_timestamps
    now,                \* the reading of datetime.now(), in seconds
    drive,              \* what the Drive folder lists for each file id
    \* scan_for_new_files / start_monitoring frames
    mpc,                \* position in start_monitoring
    current_files,      \* the files of the listing not yet looked at
    new_complete_files, \* new_complete_files
    new_files,          \* the files start_monitoring has still to process
    nscans,             \* calls of scan_for_new_files made so far
    mlog,               \* calls of is_file_complete and what they returned, in order
    mret,               \* what each call of scan_for_new_files returned, in order
    mproc,              \* what process_new_file returned for each file, in order
    \* _download_file_with_retry frame and the local file
    dpc,                \* position in _download_file_with_retry
    max_retries,        \* max_retries
    attempt,            \* the loop variable
    expected_size,      \* file_info['size']
    local_file,         \* size of the file at local_path, or NoFile
    dret,               \* the value returned (or None)
    dlog,               \* the passes through the loop, in order
    slept               \* seconds spent in time.sleep

chunkVars  == <<audio_len, chunks, start_sample, cpc>>
cfgVars    == <<chunk_length, overlap_length>>
modelVars  == <<model, processor, loads, slog>>
callVars   == <<spc, sfile, si, segments, full_text_parts, sresult, strace, ncalls>>
routerVars == <<converted, originals, sessions, transcripts, req>>
monitorVars == <<known_files, file_sizes, file_timestamps, now, drive, mpc, current_files,
                 new_complete_files, new_files, nscans, mlog, mret, mproc>>
syncVars   == <<dpc, max_retries, attempt, expected_size, local_file, dret, dlog, slept>>
driveVars  == <<monitorVars, syncVars>>
vars == <<cfgVars, modelVars, chunkVars, callVars, routerVars, driveVars>>

-----------------------------------------------------------------------------
(* Bounds of the model *)

MaxSamples == 9         \* longest buffer of the chunker specification, in samples
MaxLenTicks == 8        \* largest chunk_length / overlap_length tried, in ticks
MaxCalls == 2           \* calls of transcribe_audio in the service specification
MaxScans == 3           \* calls of scan_for_new_files in the monitor specification
MaxTime == 91           \* last clock reading of the monitor specification, in seconds
MaxRetries == 3         \* largest max_retries of the download specification

\* passes through the chunking loop before the model stops following it (a stride
\* that is not positive never ends the loop)
MaxChunks == MaxSamples + 2

-----------------------------------------------------------------------------
(* Python helpers *)

Min(a, b) == IF a <= b THEN a ELSE b

\* seq[:n] for n >= 0
Take(s, n) == SubSeq(s, 1, Min(n, Len(s)))

\* seq[n:] for n >= 0
Drop(s, n) == SubSeq(s, Min(n, Len(s)) + 1, Len(s))

\* seq[-n:] for n >= 1
LastN(s, n) == Drop(s, IF Len(s) > n THEN Len(s) - n ELSE 0)

Whitespace == {" "}

RECURSIVE LStrip(_)
LStrip(s) == IF s # <<>> /\ Head(s) \in Whitespace THEN LStrip(Tail(s)) ELSE s

RECURSIVE RStrip(_)
RStrip(s) ==
    IF s # <<>> /\ s[Len(s)] \in Whitespace THEN RStrip(SubSeq(s, 1, Len(s) - 1)) ELSE s

\* str.strip()
Strip(s) == RStrip(LStrip(s))

\* the first whitespace-free run of s (s starts with a non-whitespace character)
RECURSIVE WordOf(_)
WordOf(s) ==
    IF s = <<>> \/ Head(s) \in Whitespace THEN <<>> ELSE <<Head(s)>> \o WordOf(Tail(s))

RECURSIVE SplitStripped(_)
RECURSIVE SplitAfter(_, _)

\* the words of t, which starts with no whitespace
SplitStripped(t) == IF t = <<>> THEN <<>> ELSE SplitAfter(t, WordOf(t))

SplitAfter(t, w) == <<w>> \o SplitStripped(LStrip(Drop(t, Len(w))))

\* str.split(): the maximal whitespace-free runs, in order
Split(s) == SplitStripped(LStrip(s))

\* sep.join(parts)
RECURSIVE Join(_, _)
Join(sep, parts) ==
    IF parts = <<>> THEN <<>>
    ELSE IF Len(parts) = 1 THEN parts[1]
    ELSE parts[1] \o sep \o Join(sep, Tail(parts))

Space == <<" ">>

-----------------------------------------------------------------------------
(* TranscriptionService.__init__: audio processing settings *)

sample_rate == 16000

\* the resolution of the model's times: half a sample period
TicksPerSecond == 2 * sample_rate

TicksPerSample == TicksPerSecond \div sample_rate

Seconds(n) == n * TicksPerSecond

default_chunk_length == Seconds(30)

default_overlap_length == Seconds(1)

\* int(length * self.sample_rate) for a length of len_ticks ticks: the product is
\* len_ticks / TicksPerSample samples, truncated
IntSamples(len_ticks) == len_ticks \div TicksPerSample

\* n / self.sample_rate, a time
TimeOf(n) == n * TicksPerSample

-----------------------------------------------------------------------------
(* TranscriptionService._create_audio_chunks *)

\* fault model: a chunk length counted one sample short
ShortChunkSamples == IntSamples(chunk_length) - 1

chunk_samples == IntSamples(chunk_length)

overlap_samples == IntSamples(overlap_length)

Chunk(s, e) ==
    [start_sample |-> s, end_sample |-> e, start_time |-> TimeOf(s), end_time |-> TimeOf(e)]

\* fault model: the end of a chunk not limited to the buffer
EndSampleUnclamped(start, n, cs) == start + cs

\* line 119
EndSample(start, n, cs) == Min(start + cs, n)

\* fault model: the start moved by a whole chunk, without the overlap
NextStartNoOverlap(start, cs, os) == start + cs

\* line 128: move start for the next chunk (with overlap)
NextStart(start, cs, os) == start + cs - os

\* lines 108-117: the short-buffer test
ChunkBegin ==
    /\ cpc = "begin"
    /\ IF audio_len <= chunk_samples
       THEN /\ chunks' = <<Chunk(0, audio_len)>>
            /\ cpc' = "done"
            /\ UNCHANGED start_sample
       ELSE /\ chunks' = <<>>
            /\ start_sample' = 0
            /\ cpc' = "loop"
    /\ UNCHANGED <<audio_len, cfgVars, driveVars, modelVars, callVars, routerVars>>

\* lines 118-131: one evaluation of the while condition and, if it holds, one
\* pass through the body
ChunkLoop ==
    /\ cpc = "loop"
    /\ Len(chunks) < MaxChunks
    /\ IF start_sample < audio_len
       THEN LET end_sample == EndSample(start_sample, audio_len, chunk_samples)
            IN  /\ chunks' = Append(chunks, Chunk(start_sample, end_sample))
                /\ start_sample' = NextStart(start_sample, chunk_samples, overlap_samples)
                /\ cpc' = IF end_sample >= audio_len THEN "done" ELSE "loop"
       ELSE /\ cpc' = "done"
            /\ UNCHANGED <<chunks, start_sample>>
    /\ UNCHANGED <<audio_len, cfgVars, driveVars, modelVars, callVars, routerVars>>

\* the whole of _create_audio_chunks for a stride that is positive
RECURSIVE ChunkFrom(_, _, _, _)
ChunkFrom(start, n, cs, os) ==
    IF start < n
    THEN LET end_sample == EndSample(start, n, cs)
         IN  <<Chunk(start, end_sample)>> \o
             (IF end_sample >= n THEN <<>> ELSE ChunkFrom(NextStart(start, cs, os), n, cs, os))
    ELSE <<>>

create_audio_chunks(n, cs, os) ==
    IF n <= cs THEN <<Chunk(0, n)>> ELSE ChunkFrom(0, n, cs, os)

-----------------------------------------------------------------------------
(* TranscriptionService._ensure_model_loaded *)

model_id == "NbAiLab/nb-whisper-small"

\* what the loading calls of one _ensure_model_loaded can do
LoadOutcomes == {"loaded", "model_raises", "to_device_raises", "processor_raises"}

\* fault model: the test of line 62 looks at the model alone
EnsureModelOnly(m, p, outcome) ==
    IF m
    THEN [ret |-> TRUE, model |-> m, processor |-> p, attempted |-> FALSE]
    ELSE CASE outcome = "loaded" ->
                [ret |-> TRUE, model |-> TRUE, processor |-> TRUE, attempted |-> TRUE]
           [] outcome = "model_raises" ->
                [ret |-> FALSE, model |-> m, processor |-> p, attempted |-> TRUE]
           [] OTHER ->
                [ret |-> FALSE, model |-> TRUE, processor |-> p, attempted |-> TRUE]

\* fault model: the test of lines 62-63 left out, every call loads
EnsureAlwaysLoads(m, p, outcome) ==
    CASE outcome = "loaded" ->
            [ret |-> TRUE, model |-> TRUE, processor |-> TRUE, attempted |-> TRUE]
      [] outcome = "model_raises" ->
            [ret |-> FALSE, model |-> m, processor |-> p, attempted |-> TRUE]
      [] OTHER ->
            [ret |-> FALSE, model |-> TRUE, processor |-> p, attempted |-> TRUE]

\* lines 60-85: the value returned and the attributes left behind; `attempted` is
\* whether from_pretrained was called for the model
ensure_model_loaded(m, p, outcome) ==
    IF m /\ p
    THEN [ret |-> TRUE, model |-> m, processor |-> p, attempted |-> FALSE]
    ELSE CASE outcome = "loaded" ->
                [ret |-> TRUE, model |-> TRUE, processor |-> TRUE, attempted |-> TRUE]
           [] outcome = "model_raises" ->
                [ret |-> FALSE, model |-> m, processor |-> p, attempted |-> TRUE]
           [] OTHER ->
                \* self.model is assigned, then .to(device) or the processor load raises
                [ret |-> FALSE, model |-> TRUE, processor |-> p, attempted |-> TRUE]

-----------------------------------------------------------------------------
(* TranscriptionService._transcribe_chunk *)

\* what the inference backend does with one chunk: it raises, or it decodes to a text
Raised == [raised |-> TRUE, text |-> <<>>]

Decoded(t) == [raised |-> FALSE, text |-> t]

\* fault model: _transcribe_chunk without its except clause
ChunkReraise(out) == [raised |-> TRUE, text |-> <<>>]

\* lines 170-172: the except clause returns ""
ChunkExcept(out) == [raised |-> FALSE, text |-> <<>>]

\* lines 138-172: whether the call raises to transcribe_audio, and the text returned
transcribe_chunk(out) ==
    IF out.raised THEN ChunkExcept(out) ELSE [raised |-> FALSE, text |-> Strip(out.text)]

-----------------------------------------------------------------------------
(* TranscriptionService.transcribe_audio *)

None == "None"

NoResult == [returned |-> FALSE]

\* fault model: a segment that starts where its text was trimmed to, one tick
\* into the chunk
TrimmedSegment(text, chunk) ==
    [text |-> text, start_time |-> chunk.start_time + 1, end_time |-> chunk.end_time,
     confidence |-> None]

TranscriptionSegment(text, chunk) ==
    [text |-> text, start_time |-> chunk.start_time, end_time |-> chunk.end_time,
     confidence |-> None]

\* lines 188-197, 200-209, 277-286
FailedResult(message, duration_ms) ==
    [returned |-> TRUE, success |-> FALSE, full_text |-> <<>>, segments |-> <<>>,
     processing_duration_ms |-> duration_ms, model_used |-> model_id,
     audio_duration_seconds |-> 0, chunks_processed |-> 0,
     error_message |-> message, language_detected |-> None]

\* fault model: chunks_processed counts the accepted segments
DoneResultCountsSegments(parts, segs, duration_ms, n, nchunks) ==
    [returned |-> TRUE, success |-> TRUE, full_text |-> Strip(Join(Space, parts)),
     segments |-> segs, processing_duration_ms |-> duration_ms, model_used |-> model_id,
     audio_duration_seconds |-> TimeOf(n), chunks_processed |-> Len(segs),
     error_message |-> None, language_detected |-> "no"]

\* fault model: a successful result that carries a message
DoneResultWithMessage(parts, segs, duration_ms, n, nchunks) ==
    [returned |-> TRUE, success |-> TRUE, full_text |-> Strip(Join(Space, parts)),
     segments |-> segs, processing_duration_ms |-> duration_ms, model_used |-> model_id,
     audio_duration_seconds |-> TimeOf(n), chunks_processed |-> nchunks,
     error_message |-> "ok", language_detected |-> "no"]

\* fault model: the parts concatenated without the separating space
DoneResultConcat(parts, segs, duration_ms, n, nchunks) ==
    [returned |-> TRUE, success |-> TRUE, full_text |-> Strip(Join(<<>>, parts)),
     segments |-> segs, processing_duration_ms |-> duration_ms, model_used |-> model_id,
     audio_duration_seconds |-> TimeOf(n), chunks_processed |-> nchunks,
     error_message |-> None, language_detected |-> "no"]

\* lines 252, 260-269
DoneResult(parts, segs, duration_ms, n, nchunks) ==
    [returned |-> TRUE, success |-> TRUE, full_text |-> Strip(Join(Space, parts)),
     segments |-> segs, processing_duration_ms |-> duration_ms, model_used |-> model_id,
     audio_duration_seconds |-> TimeOf(n), chunks_processed |-> nchunks,
     error_message |-> None, language_detected |-> "no"]

\* lines 187-197: the file is missing
NotFoundReturn == [raised |-> FALSE, result |-> FailedResult("Audio file not found", 0)]

\* lines 199-209: _ensure_model_loaded returned False
LoadFailedReturn ==
    [raised |-> FALSE, result |-> FailedResult("Failed to load transcription model", 0)]

\* fault model: transcribe_audio without its except clause
TranscribeReraise(message, duration_ms) == [raised |-> TRUE, result |-> NoResult]

\* lines 271-286: the except clause of the try that holds lines 212-269, entered
\* with the exception's text
TranscribeExcept(message, duration_ms) ==
    [raised |-> FALSE, result |-> FailedResult(message, duration_ms)]

\* the order in which line 237 tries the overlap lengths j + 1
OverlapScan(n) == [k \in 1..n |-> k - 1]

\* line 238: the positions of scan at which the test holds
OverlapHits(prev_words, chunk_words, scan) ==
    {k \in 1..Len(scan) : LastN(prev_words, scan[k] + 1) = Take(chunk_words, scan[k] + 1)}

\* lines 237-240: the first position at which the test holds decides, and ends the
\* scan
FirstHit(hits) == CHOOSE k \in hits : \A h \in hits : k <= h

\* fault model: the first word is dropped whether it repeats or not
DropOverlapFirstWord(chunk_words, chunk_text, scan, hits) ==
    Join(Space, Drop(chunk_words, 1))

\* lines 237-240 for the hits found
DropOverlap(chunk_words, chunk_text, scan, hits) ==
    IF hits = {} THEN chunk_text
    ELSE Join(Space, Drop(chunk_words, scan[FirstHit(hits)] + 1))

\* lines 237-240
ScanOverlap(prev_words, chunk_words, chunk_text, scan) ==
    DropOverlap(chunk_words, chunk_text, scan, OverlapHits(prev_words, chunk_words, scan))

\* lines 233-240 for the words of the two texts
RemoveOverlapWords(prev_words, chunk_words, chunk_text) ==
    ScanOverlap(prev_words, chunk_words, chunk_text,
                OverlapScan(Min(Len(prev_words), Len(chunk_words))))

\* lines 233-240: the text of the chunk with the words it repeats removed
RemoveOverlap(prev_part, chunk_text) ==
    RemoveOverlapWords(LastN(Split(prev_part), 3), Split(chunk_text), chunk_text)

\* fault model: the test of line 242 left out
AcceptChunkAlways(segs, parts, chunk, text) ==
    [segments |-> Append(segs, TranscriptionSegment(text, chunk)),
     parts |-> Append(parts, text)]

\* lines 242-249: the segment and the text part of a chunk whose text is not blank
AcceptChunk(segs, parts, chunk, text) ==
    IF Strip(text) # <<>>
    THEN [segments |-> Append(segs, TranscriptionSegment(text, chunk)),
          parts |-> Append(parts, text)]
    ELSE [segments |-> segs, parts |-> parts]

\* fault model: a text is compared only with the text of the chunk just before
\* it, and appended unmodified when that chunk was not accepted
ProcessChunkAdjacent(segs, parts, i, chunk, chunk_text) ==
    IF chunk_text = <<>> THEN [segments |-> segs, parts |-> parts]
    ELSE AcceptChunk(segs, parts, chunk,
                     IF i > 0 /\ Len(parts) > 0
                              /\ segs[Len(segs)].end_time >= chunk.start_time
                     THEN RemoveOverlap(parts[Len(parts)], chunk_text)
                     ELSE chunk_text)

\* lines 229-249: the body of the for loop for chunk number i (0-based) whose
\* text is chunk_text
ProcessChunk(segs, parts, i, chunk, chunk_text) ==
    IF chunk_text = <<>> THEN [segments |-> segs, parts |-> parts]
    ELSE AcceptChunk(segs, parts, chunk,
                     IF i > 0 /\ Len(parts) > 0
                     THEN RemoveOverlap(parts[Len(parts)], chunk_text)
                     ELSE chunk_text)

\* the clock readings of lines 255-256 and 272-273 (elapsed milliseconds)
Durations == {0, 7}

\* an entry of strace
Passed(phase, chunk, failed, text) ==
    [phase |-> phase, chunk |-> chunk, failed |-> failed, text |-> text]

\* an entry of slog: a load attempted by call number `call` and whether it
\* succeeded, an unload that found something to release, or the return of a call
\* with the phase it failed in
Logged(ev, call, ok, phase) == [ev |-> ev, call |-> call, ok |-> ok, phase |-> phase]

\* the phase a call that has ended failed in, from its trace
EndPhase(result, trace) ==
    IF ~result.returned THEN "Raised"
    ELSE IF result.success THEN "Done"
    ELSE IF Len(trace) < 2 THEN "NotStarted"
    ELSE trace[Len(trace) - 1].phase

Returned(call, result, trace) ==
    Logged("return", call, result.returned /\ result.success, EndPhase(result, trace))

\* the caller's call: lines 184-185; the call before it is logged as returned
CallBegin(f) ==
    /\ spc \in {"idle", "returned", "raised"}
    /\ ncalls < MaxCalls
    /\ ncalls' = ncalls + 1
    /\ spc' = "check"
    /\ sfile' = f
    /\ sresult' = NoResult
    /\ strace' = <<>>
    /\ si' = 0
    /\ segments' = <<>>
    /\ full_text_parts' = <<>>
    /\ slog' = IF spc = "idle" THEN slog ELSE Append(slog, Returned(ncalls, sresult, strace))
    /\ UNCHANGED <<cfgVars, driveVars, model, processor, loads, chunkVars, routerVars>>

\* fault model: the model is loaded before the path is looked at
CallCheckLoadsFirst ==
    /\ spc = "check"
    /\ \E outcome \in LoadOutcomes :
          /\ model' = ensure_model_loaded(model, processor, outcome).model
          /\ processor' = ensure_model_loaded(model, processor, outcome).processor
          /\ loads' = IF ensure_model_loaded(model, processor, outcome).attempted
                      THEN loads + 1 ELSE loads
    /\ slog' = slog
    /\ IF sfile \notin converted
       THEN /\ spc' = "returned"
            /\ sresult' = NotFoundReturn.result
            /\ strace' = Append(strace, Passed("Failed", 0, TRUE, <<>>))
       ELSE /\ spc' = "load"
            /\ UNCHANGED <<sresult, strace>>
    /\ UNCHANGED <<cfgVars, driveVars, chunkVars, routerVars, ncalls, sfile, si,
                   segments, full_text_parts>>

\* lines 187-197
CallCheck ==
    /\ spc = "check"
    /\ IF sfile \notin converted
       THEN /\ spc' = IF NotFoundReturn.raised THEN "raised" ELSE "returned"
            /\ sresult' = NotFoundReturn.result
            /\ strace' = Append(strace, Passed("Failed", 0, TRUE, <<>>))
       ELSE /\ spc' = "load"
            /\ UNCHANGED <<sresult, strace>>
    /\ UNCHANGED <<cfgVars, driveVars, modelVars, chunkVars, routerVars, ncalls, sfile, si,
                   segments, full_text_parts>>

\* lines 199-209
AfterLoad(e) ==
    /\ model' = e.model
    /\ processor' = e.processor
    /\ loads' = IF e.attempted THEN loads + 1 ELSE loads
    /\ slog' = IF e.attempted THEN Append(slog, Logged("load", ncalls, e.ret, "ModelLoading"))
                ELSE slog
    /\ IF e.ret
       THEN /\ spc' = "decode"
            /\ sresult' = sresult
            /\ strace' = Append(strace, Passed("ModelLoading", 0, FALSE, <<>>))
       ELSE /\ spc' = IF LoadFailedReturn.raised THEN "raised" ELSE "returned"
            /\ sresult' = LoadFailedReturn.result
            /\ strace' = strace \o <<Passed("ModelLoading", 0, TRUE, <<>>),
                                     Passed("Failed", 0, TRUE, <<>>)>>

CallLoad ==
    /\ spc = "load"
    /\ \E outcome \in LoadOutcomes : AfterLoad(ensure_model_loaded(model, processor, outcome))
    /\ UNCHANGED <<cfgVars, driveVars, chunkVars, routerVars, ncalls, sfile, si, segments,
                   full_text_parts>>

\* what librosa.load does with a file: it raises, or it gives a buffer of n samples
DecodeRaises == [raised |-> TRUE, n |-> 0]

Buffer(n) == [raised |-> FALSE, n |-> n]

\* an exception raised inside the try of line 211 ends the call through x, what
\* the except clause makes of it
CallExcept(x, phase, chunk) ==
    /\ spc' = IF x.raised THEN "raised" ELSE "returned"
    /\ sresult' = x.result
    /\ strace' = strace \o <<Passed(phase, chunk, TRUE, <<>>), Passed("Failed", 0, TRUE, <<>>)>>

\* lines 215-218: _load_and_preprocess_audio, then the call of _create_audio_chunks
CallDecode(Decodes) ==
    /\ spc = "decode"
    /\ \E d \in Decodes :
         IF d.raised
         THEN /\ \E ms \in Durations :
                   CallExcept(TranscribeExcept("decode error", ms), "Preprocessing", 0)
              /\ UNCHANGED <<audio_len, cpc>>
         ELSE /\ audio_len' = d.n
              /\ cpc' = "begin"
              /\ spc' = "chunk"
              /\ strace' = strace \o <<Passed("Preprocessing", 0, FALSE, <<>>),
                                       Passed("Chunking", 0, FALSE, <<>>)>>
              /\ UNCHANGED sresult
    /\ UNCHANGED <<cfgVars, driveVars, modelVars, chunks, start_sample, routerVars, ncalls, sfile,
                   si, segments, full_text_parts>>

\* line 218 returns; lines 221-222
CallChunked ==
    /\ spc = "chunk"
    /\ cpc = "done"
    /\ cpc' = "idle"
    /\ spc' = "for"
    /\ si' = 1
    /\ segments' = <<>>
    /\ full_text_parts' = <<>>
    /\ UNCHANGED <<cfgVars, driveVars, modelVars, audio_len, chunks, start_sample, routerVars,
                   ncalls, sfile, sresult, strace>>

\* fault model: the loop passes over the chunk that follows
AfterProcessSkip(acc) ==
    /\ segments' = acc.segments
    /\ full_text_parts' = acc.parts
    /\ si' = si + 2
    /\ UNCHANGED <<spc, sresult>>

\* lines 229-249 leave the loop's variables as acc says
AfterProcess(acc) ==
    /\ segments' = acc.segments
    /\ full_text_parts' = acc.parts
    /\ si' = si + 1
    /\ UNCHANGED <<spc, sresult>>

\* lines 227-249: the backend did `out` with chunk si and _transcribe_chunk made c of it
AfterChunk(out, c) ==
    IF c.raised
    THEN /\ \E ms \in Durations :
              CallExcept(TranscribeExcept("inference error", ms), "TranscribingChunk", si)
         /\ UNCHANGED <<si, segments, full_text_parts>>
    ELSE /\ AfterProcess(ProcessChunk(segments, full_text_parts, si - 1, chunks[si], c.text))
         /\ strace' = Append(strace, Passed("TranscribingChunk", si, out.raised, c.text))

\* lines 224-249: one pass through the for loop, for chunk si
CallChunk(Outs) ==
    /\ spc = "for"
    /\ si <= Len(chunks)
    /\ \E out \in Outs : AfterChunk(out, transcribe_chunk(out))
    /\ UNCHANGED <<cfgVars, driveVars, modelVars, chunkVars, routerVars, ncalls, sfile>>

\* lines 251-269
CallFinish ==
    /\ spc = "for"
    /\ si > Len(chunks)
    /\ \E ms \in Durations :
         sresult' = DoneResult(full_text_parts, segments, ms, audio_len, Len(chunks))
    /\ spc' = "returned"
    /\ strace' = strace \o <<Passed("Reconciling", 0, FALSE, <<>>),
                             Passed("Done", 0, FALSE, <<>>)>>
    /\ UNCHANGED <<cfgVars, driveVars, modelVars, chunkVars, routerVars, ncalls, sfile, si,
                   segments, full_text_parts>>

\* fault model: unload_model without its second if
UnloadModelOnly(m, p) == [raised |-> FALSE, model |-> FALSE, processor |-> p]

\* TranscriptionService.unload_model, lines 336-350: the attributes it leaves,
\* given whether each was set
unload_model(m, p) ==
    [raised |-> FALSE,
     model |-> IF m THEN FALSE ELSE m,
     processor |-> IF p THEN FALSE ELSE p]

\* unload_model called between two calls of transcribe_audio
UnloadModel ==
    /\ spc \in {"idle", "returned"}
    /\ ~unload_model(model, processor).raised
    /\ model' = unload_model(model, processor).model
    /\ processor' = unload_model(model, processor).processor
    /\ slog' = IF model \/ processor
                THEN Append(slog, Logged("unload", ncalls, TRUE, "none"))
                ELSE slog
    /\ UNCHANGED <<loads, cfgVars, driveVars, chunkVars, callVars, routerVars>>

\* lines 224-249 for the chunks from number i (1-based) on, given what the backend
\* does with each
RECURSIVE ProcessChunks(_, _, _, _, _)
RECURSIVE ProcessFrom(_, _, _, _)
RECURSIVE ProcessText(_, _, _, _, _, _)

ProcessChunks(chs, outs, i, segs, parts) ==
    IF i > Len(chs) THEN [raised |-> FALSE, segments |-> segs, parts |-> parts]
    ELSE ProcessText(chs, outs, i, segs, parts, transcribe_chunk(outs[i]))

ProcessText(chs, outs, i, segs, parts, c) ==
    IF c.raised THEN [raised |-> TRUE, segments |-> segs, parts |-> parts]
    ELSE ProcessFrom(chs, outs, i, ProcessChunk(segs, parts, i - 1, chs[i], c.text))

ProcessFrom(chs, outs, i, acc) == ProcessChunks(chs, outs, i + 1, acc.segments, acc.parts)

\* lines 184-286 as one call: what it returns (or that it raises) and the
\* attributes it leaves, for a file that exists or not, a loading outcome, a
\* decoding outcome d, the backend's outcomes outs for the chunks, and a clock
\* lines 224-269 for the chunks chs, once the loop has left acc
Reconciled(acc, n, nchunks, ms) ==
    IF acc.raised THEN TranscribeExcept("inference error", ms)
    ELSE [raised |-> FALSE, result |-> DoneResult(acc.parts, acc.segments, ms, n, nchunks)]

\* lines 218-269 for a buffer of n samples cut into chs
TranscribeChunks(chs, n, outs, ms) ==
    Reconciled(ProcessChunks(chs, outs, 1, <<>>, <<>>), n, Len(chs), ms)

\* lines 199-286, e being what _ensure_model_loaded did
TranscribeLoaded(e, d, outs, ms) ==
    [call |-> IF ~e.ret THEN LoadFailedReturn
              ELSE IF d.raised THEN TranscribeExcept("decode error", ms)
              ELSE TranscribeChunks(create_audio_chunks(d.n, chunk_samples, overlap_samples),
                                    d.n, outs, ms),
     model |-> e.model, processor |-> e.processor,
     n_loads |-> IF e.attempted THEN 1 ELSE 0]

transcribe_audio(exists, m, p, load, d, outs, ms) ==
    IF ~exists
    THEN [call |-> NotFoundReturn, model |-> m, processor |-> p, n_loads |-> 0]
    ELSE TranscribeLoaded(ensure_model_loaded(m, p, load), d, outs, ms)

-----------------------------------------------------------------------------
(* transcription_router.transcribe_audio_file, database, file system *)

MaxRequests == 2        \* requests received in a behaviour

Requests == 1..MaxRequests

Filenames == {"a.wav", "b.wav"}

NoOutcome == [kind |-> "none"]

\* lines 23-33
TranscriptionResponse(sid, ok, text, nseg, ms, dur, nchunks, used, err) ==
    [kind |-> "TranscriptionResponse", session_id |-> sid, success |-> ok,
     full_text |-> text, segments_count |-> nseg, processing_duration_ms |-> ms,
     audio_duration_seconds |-> dur, chunks_processed |-> nchunks, model_used |-> used,
     error_message |-> err]

\* fastapi.HTTPException raised out of the handler
HTTPException(status_code, detail) ==
    [kind |-> "HTTPException", status_code |-> status_code, detail |-> detail]

\* lines 59-62, re-raised by lines 186-187
NotFoundOutcome == HTTPException(404, "Audio file not found")

\* lines 188-193
UnexpectedOutcome == HTTPException(500, "Internal server error during transcription")

IdleRequest ==
    [pc |-> "idle", filename |-> None, audio_dir |-> None, session_id |-> 0,
     existing_session |-> FALSE, loaded_status |-> None, existing_transcript |-> 0,
     result |-> NoResult, outcome |-> NoOutcome,
     \* history: transcribe_audio was called; the transcript row written
     inferred |-> FALSE, wrote |-> 0]

\* the request has been received and has not ended
InFlight(r) == req[r].pc \notin {"idle", "done"}

\* what is left of a request that has ended: its outcome (the locals are gone)
Ended(q, outcome, wrote) ==
    [IdleRequest EXCEPT !.pc = "done", !.filename = q.filename,
                        !.session_id = q.session_id, !.outcome = outcome,
                        !.inferred = q.inferred, !.wrote = wrote]

\* the request ends with `outcome`
EndWith(r, outcome) ==
    req' = [req EXCEPT ![r] = Ended(req[r], outcome, 0)]

\* fault model: the file check always finds the file
ResolveAudioAnywhere(f) == "converted"

\* lines 53-62: the path of the file, converted location first
ResolveAudio(f) ==
    IF f \in converted THEN "converted"
    ELSE IF f \in originals THEN "originals"
    ELSE None

\* lines 50-62: request number r arrives for filename f
Receive(r, f) ==
    /\ req[r].pc = "idle"
    /\ \A q \in Requests : q < r => req[q].pc # "idle"
    /\ LET dir == ResolveAudio(f)
           got == [req[r] EXCEPT !.filename = f, !.audio_dir = dir]
       IN  IF dir = None
           THEN req' = [req EXCEPT ![r] = Ended(got, NotFoundOutcome, 0)]
           ELSE req' = [req EXCEPT ![r] = [got EXCEPT !.pc = "query_session"]]
    /\ UNCHANGED <<cfgVars, driveVars, modelVars, chunkVars, callVars, converted, originals,
                   sessions, transcripts>>

\* lines 65-67: the session rows the filter selects, as indices
SessionsNamed(f) == {i \in 1..Len(sessions) : sessions[i].filename = f}

\* lines 72-74 and 119-121: the transcript rows the filter selects, as indices
TranscriptsFor(sid) == {i \in 1..Len(transcripts) : transcripts[i].session_id = sid}

\* fault model: a repository call that raises is reported as a failed
\* transcription
RepositoryFailsAsFailure(r) ==
    /\ EndWith(r, TranscriptionResponse(req[r].session_id, FALSE, <<>>, 0, 0, 0, 0,
                                        model_id, "database error"))
    /\ UNCHANGED <<cfgVars, driveVars, modelVars, chunkVars, callVars, converted, originals,
                   sessions, transcripts>>

\* a repository call that raises: lines 188-193 end the request
RepositoryFails(r) ==
    /\ EndWith(r, UnexpectedOutcome)
    /\ UNCHANGED <<cfgVars, driveVars, modelVars, chunkVars, callVars, converted, originals,
                   sessions, transcripts>>

\* fault model: the session found is not used, a new one is created
QuerySessionAlwaysNew(r) ==
    /\ req[r].pc = "query_session"
    /\ req' = [req EXCEPT ![r].pc = "create_session"]
    /\ UNCHANGED <<cfgVars, driveVars, modelVars, chunkVars, callVars, converted, originals,
                   sessions, transcripts>>

\* lines 64-70 and the else of line 88
QuerySession(r) ==
    /\ req[r].pc = "query_session"
    /\ LET rows == SessionsNamed(req[r].filename)
       IN  \/ /\ rows = {}
              /\ req' = [req EXCEPT ![r].pc = "create_session"]
           \/ \E i \in rows :
                req' = [req EXCEPT ![r].pc = "query_transcript",
                                   ![r].existing_session = TRUE,
                                   ![r].session_id = sessions[i].id,
                                   ![r].loaded_status = sessions[i].processing_status]
    /\ UNCHANGED <<cfgVars, driveVars, modelVars, chunkVars, callVars, converted, originals,
                   sessions, transcripts>>

QuerySessionFails(r) ==
    /\ req[r].pc = "query_session"
    /\ RepositoryFails(r)

\* x or default
OrElse(x, empty, default) == IF x = empty THEN default ELSE x

\* fault model: the stored text is not returned verbatim
StoredResponseOther(session_id, t) ==
    TranscriptionResponse(session_id, TRUE, t.full_text \o <<"?">>, Len(t.segments),
                          OrElse(t.processing_duration_ms, 0, 0), 0, 0,
                          OrElse(t.model_version, None, "unknown"), None)

\* lines 78-87: the response built from a stored transcript
StoredResponse(session_id, t) ==
    TranscriptionResponse(session_id, TRUE, OrElse(t.full_text, <<>>, <<>>),
                          Len(t.segments), OrElse(t.processing_duration_ms, 0, 0), 0, 0,
                          OrElse(t.model_version, None, "unknown"), None)

\* fault model: the stored transcript is never returned
GateAlwaysTranscribe(r, rows) == req' = [req EXCEPT ![r].pc = "transcribe"]

\* lines 76-87: what is done with the transcript rows found for the session
\* (none: go on to inference)
IdempotencyGate(r, rows) ==
    IF rows = {}
    THEN req' = [req EXCEPT ![r].pc = "transcribe"]
    ELSE \E i \in rows : EndWith(r, StoredResponse(req[r].session_id, transcripts[i]))

\* lines 71-87
QueryTranscript(r) ==
    /\ req[r].pc = "query_transcript"
    /\ IdempotencyGate(r, TranscriptsFor(req[r].session_id))
    /\ UNCHANGED <<cfgVars, driveVars, modelVars, chunkVars, callVars, converted, originals,
                   sessions, transcripts>>

QueryTranscriptFails(r) ==
    /\ req[r].pc = "query_transcript"
    /\ RepositoryFails(r)

\* fault model: the new session is added and not committed
CreateSessionUncommitted(r) ==
    /\ req[r].pc = "create_session"
    /\ req' = [req EXCEPT ![r].pc = "transcribe", ![r].session_id = Len(sessions) + 1,
                          ![r].loaded_status = "transcribing"]
    /\ UNCHANGED <<cfgVars, driveVars, modelVars, chunkVars, callVars, converted, originals,
                   sessions, transcripts>>

\* fault model: a session that has appeared for the filename since the lookup
\* is reused
CreateSessionDeduped(r) ==
    /\ req[r].pc = "create_session"
    /\ IF SessionsNamed(req[r].filename) = {}
       THEN sessions' = Append(sessions,
                [id |-> Len(sessions) + 1, filename |-> req[r].filename,
                 converted_path |-> <<req[r].audio_dir, req[r].filename>>,
                 processing_status |-> "transcribing"])
       ELSE sessions' = sessions
    /\ req' = [req EXCEPT ![r].pc = "transcribe",
                          ![r].session_id =
                              IF SessionsNamed(req[r].filename) = {}
                              THEN Len(sessions) + 1
                              ELSE CHOOSE i \in SessionsNamed(req[r].filename) : TRUE,
                          ![r].loaded_status = "transcribing"]
    /\ UNCHANGED <<cfgVars, driveVars, modelVars, chunkVars, callVars, converted, originals,
                   transcripts>>

\* lines 89-100
CreateSession(r) ==
    /\ req[r].pc = "create_session"
    /\ LET id == Len(sessions) + 1      \* uuid.uuid4(): an id no other row has
       IN  /\ sessions' = Append(sessions,
                  [id |-> id, filename |-> req[r].filename,
                   converted_path |-> <<req[r].audio_dir, req[r].filename>>,
                   processing_status |-> "transcribing"])
           /\ req' = [req EXCEPT ![r].pc = "transcribe", ![r].session_id = id,
                                 ![r].loaded_status = "transcribing"]
    /\ UNCHANGED <<cfgVars, driveVars, modelVars, chunkVars, callVars, converted, originals,
                   transcripts>>

CreateSessionFails(r) ==
    /\ req[r].pc = "create_session"
    /\ RepositoryFails(r)

\* what the router specifications let a decoded file be: undecodable, or 40 s
\* long (two chunks)
RouterDecodes == {DecodeRaises, Buffer(40 * sample_rate)}

\* what they let the backend do with a chunk
RouterOuts == {Raised, Decoded(<<"a">>), Decoded(<<"b">>)}

\* and the loading outcomes they try
RouterLoads == {"loaded", "model_raises"}

RouterDurations == {7}

\* Path(...).exists() for a path in one of the two locations
PathExists(dir, f) == IF dir = "converted" THEN f \in converted ELSE f \in originals

\* the number of chunks a decoded buffer is cut into (how many times the backend
\* is asked)
NumChunks(d) ==
    IF d.raised THEN 0 ELSE Len(create_audio_chunks(d.n, chunk_samples, overlap_samples))

\* lines 104-106 and 164: the call has done t; an exception out of line 104
\* reaches lines 188-193
AfterTranscribe(r, t) ==
    /\ model' = t.model
    /\ processor' = t.processor
    /\ loads' = loads + t.n_loads
    /\ slog' = slog
    /\ IF t.call.raised
       THEN req' = [req EXCEPT
               ![r] = Ended([req[r] EXCEPT !.inferred = TRUE], UnexpectedOutcome, 0)]
       ELSE req' = [req EXCEPT
               ![r].pc = IF t.call.result.success THEN "lookup_transcript"
                         ELSE "commit_error",
               ![r].result = t.call.result,
               ![r].inferred = TRUE]

\* line 104: the call of transcription_service.transcribe_audio
Transcribe(r) ==
    /\ req[r].pc = "transcribe"
    /\ \E load \in RouterLoads, d \in RouterDecodes, ms \in RouterDurations :
         \E outs \in [1..NumChunks(d) -> RouterOuts] :
            AfterTranscribe(r, transcribe_audio(PathExists(req[r].audio_dir, req[r].filename),
                                                model, processor, load, d, outs, ms))
    /\ UNCHANGED <<cfgVars, driveVars, chunkVars, callVars, converted, originals, sessions,
                   transcripts>>

\* lines 118-121
LookupTranscript(r) ==
    /\ req[r].pc = "lookup_transcript"
    /\ LET rows == TranscriptsFor(req[r].session_id)
       IN  \/ /\ rows = {}
              /\ req' = [req EXCEPT ![r].pc = "commit_success",
                                    ![r].existing_transcript = 0]
           \/ \E i \in rows :
                req' = [req EXCEPT ![r].pc = "commit_success",
                                   ![r].existing_transcript = transcripts[i].id]
    /\ UNCHANGED <<cfgVars, driveVars, modelVars, chunkVars, callVars, converted, originals,
                   sessions, transcripts>>

LookupTranscriptFails(r) ==
    /\ req[r].pc = "lookup_transcript"
    /\ RepositoryFails(r)

\* fault model: the segments stored in the opposite order
SegmentsJsonReversed(segs) ==
    [k \in 1..Len(segs) |->
        [text |-> segs[Len(segs) + 1 - k].text,
         start_time |-> segs[Len(segs) + 1 - k].start_time,
         end_time |-> segs[Len(segs) + 1 - k].end_time,
         confidence |-> segs[Len(segs) + 1 - k].confidence]]

\* lines 108-116
SegmentsJson(segs) ==
    [k \in 1..Len(segs) |->
        [text |-> segs[k].text, start_time |-> segs[k].start_time,
         end_time |-> segs[k].end_time, confidence |-> segs[k].confidence]]

\* lines 125-129 and 132-140: the columns taken from the result
TranscriptColumns(id, session_id, result) ==
    [id |-> id, session_id |-> session_id, full_text |-> result.full_text,
     segments |-> SegmentsJson(result.segments), language |-> result.language_detected,
     model_version |-> result.model_used,
     processing_duration_ms |-> result.processing_duration_ms]

\* lines 123-141: the transcripts table once the unit of work is flushed
WriteTranscript(rows, existing_id, session_id, result) ==
    IF existing_id # 0
    THEN [k \in 1..Len(rows) |->
            IF rows[k].id = existing_id
            THEN TranscriptColumns(rows[k].id, rows[k].session_id, result)
            ELSE rows[k]]
    ELSE Append(rows, TranscriptColumns(Len(rows) + 1, session_id, result))

\* fault model: every status assignment writes `transcribed`
WriteStatusTranscribed(rows, session_id, loaded_status, status) ==
    [k \in 1..Len(rows) |->
        IF rows[k].id = session_id
        THEN [rows[k] EXCEPT !.processing_status = "transcribed"]
        ELSE rows[k]]

\* fault model: the status assignment is lost
WriteStatusNever(rows, session_id, loaded_status, status) == rows

\* lines 144-147 and 166-169: processing_status is assigned on the session object
\* this request loaded; the flush writes the column if the value differs from the
\* one loaded
WriteStatus(rows, session_id, loaded_status, status) ==
    IF status = loaded_status THEN rows
    ELSE [k \in 1..Len(rows) |->
            IF rows[k].id = session_id
            THEN [rows[k] EXCEPT !.processing_status = status]
            ELSE rows[k]]

\* lines 153-162
SuccessResponse(session_id, result) ==
    TranscriptionResponse(session_id, TRUE, result.full_text, Len(result.segments),
                          result.processing_duration_ms, result.audio_duration_seconds,
                          result.chunks_processed, result.model_used, None)

\* fault model: the error response without the pipeline's message
ErrorResponseSilent(session_id, result) ==
    TranscriptionResponse(session_id, FALSE, <<>>, 0, result.processing_duration_ms, 0, 0,
                          result.model_used, None)

\* lines 174-184
ErrorResponse(session_id, result) ==
    TranscriptionResponse(session_id, FALSE, <<>>, 0, result.processing_duration_ms, 0, 0,
                          result.model_used, result.error_message)

\* lines 123-162: transcript and status are written by the one commit of line 149
CommitSuccess(r) ==
    /\ req[r].pc = "commit_success"
    /\ transcripts' = WriteTranscript(transcripts, req[r].existing_transcript,
                                      req[r].session_id, req[r].result)
    /\ sessions' = WriteStatus(sessions, req[r].session_id, req[r].loaded_status,
                               "transcribed")
    /\ req' = [req EXCEPT ![r] =
                  Ended(req[r], SuccessResponse(req[r].session_id, req[r].result),
                        IF req[r].existing_transcript # 0
                        THEN req[r].existing_transcript ELSE Len(transcripts) + 1)]
    /\ UNCHANGED <<cfgVars, driveVars, modelVars, chunkVars, callVars, converted, originals>>

CommitSuccessFails(r) ==
    /\ req[r].pc = "commit_success"
    /\ RepositoryFails(r)

\* lines 164-184
CommitError(r) ==
    /\ req[r].pc = "commit_error"
    /\ sessions' = WriteStatus(sessions, req[r].session_id, req[r].loaded_status, "error")
    /\ EndWith(r, ErrorResponse(req[r].session_id, req[r].result))
    /\ UNCHANGED <<cfgVars, driveVars, modelVars, chunkVars, callVars, converted, originals,
                   transcripts>>

CommitErrorFails(r) ==
    /\ req[r].pc = "commit_error"
    /\ RepositoryFails(r)

\* the environment: a file leaves one of the two locations
RemoveFile(f) ==
    /\ \/ /\ f \in converted
          /\ converted' = converted \ {f}
          /\ UNCHANGED originals
       \/ /\ f \in originals
          /\ originals' = originals \ {f}
          /\ UNCHANGED converted
    /\ UNCHANGED <<cfgVars, driveVars, modelVars, chunkVars, callVars, sessions, transcripts, req>>

-----------------------------------------------------------------------------
(* FileMonitorService (file_monitor_service.py) and the Drive folder *)

\* the ids of the files the Drive folder may list
FileIds == {"f1", "f2"}

\* line 19
completion_wait_seconds == 60

\* the listing has no entry for the file
NotListed == [listed |-> FALSE, has_size |-> FALSE, size |-> <<>>]

\* the entry of the file has no 'size' key
NoSize == [listed |-> TRUE, has_size |-> FALSE, size |-> <<>>]

\* the entry of the file has this text under 'size'
Sized(text) == [listed |-> TRUE, has_size |-> TRUE, size |-> text]

\* the 'size' texts the folder reports
SizeTexts == {<<"5">>, <<"1", "2">>}

\* what the folder can say about a file
DriveEntries == {NotListed, NoSize} \cup {Sized(text) : text \in SizeTexts}

\* the first file is uploaded piece by piece, the second at once
EntriesOf(id) == IF id = "f1" THEN DriveEntries ELSE {NotListed, Sized(<<"5">>)}

Digits == <<"0", "1", "2", "3", "4", "5", "6", "7", "8", "9">>

DigitValue(c) == (CHOOSE k \in 1..10 : Digits[k] = c) - 1

RECURSIVE IntOf(_)
\* int() of a text of decimal digits
IntOf(text) ==
    IF text = <<>> THEN 0
    ELSE 10 * IntOf(SubSeq(text, 1, Len(text) - 1)) + DigitValue(text[Len(text)])

\* an element of the list list_audio_files returns
FileInfo(id, e) == [id |-> id, listed |-> e.listed, has_size |-> e.has_size, size |-> e.size]

IsListed(file_info) == file_info.listed

\* list_audio_files when the request succeeds: the entries of the folder
ListAudioFiles(d) == SelectSeq(<<FileInfo("f1", d["f1"]), FileInfo("f2", d["f2"])>>, IsListed)

\* what list_audio_files does: it returns the entries, returns [] (not
\* authenticated, HttpError), or raises an exception that is not an HttpError
ListOutcomes == {"listed", "empty", "raises"}

\* line 27: int(file_info.get('size', 0))
CurrentSize(file_info) == IF file_info.has_size THEN IntOf(file_info.size) ELSE 0

\* a dict without keys
EmptyDict == [x \in {} |-> 0]

\* d[k] = v, the other keys of the dict as they were
Put(d, k, v) == [x \in DOMAIN d \cup {k} |-> IF x = k THEN v ELSE d[x]]

\* fault model: the test holds from completion_wait_seconds on
StableAtWait(current_size, current_time, previous_size, previous_time) ==
    /\ current_size = previous_size
    /\ current_time - previous_time >= completion_wait_seconds

\* fault model: the size is not compared
StableWhateverSize(current_size, current_time, previous_size, previous_time) ==
    current_time - previous_time > completion_wait_seconds

\* lines 35-36: the test that makes is_file_complete return True
Stable(current_size, current_time, previous_size, previous_time) ==
    /\ current_size = previous_size
    /\ current_time - previous_time > completion_wait_seconds

\* fault model: a size change leaves the timestamp as it was
SeenAgainKeepsTime(file_id, current_size, current_time, sizes, stamps) ==
    IF Stable(current_size, current_time, sizes[file_id], stamps[file_id])
    THEN [ret |-> TRUE, file_sizes |-> sizes, file_timestamps |-> stamps]
    ELSE [ret |-> FALSE, file_sizes |-> Put(sizes, file_id, current_size),
          file_timestamps |-> stamps]

\* lines 31-44 and 52-54: is_file_complete for a file seen before
SeenAgain(file_id, current_size, current_time, sizes, stamps) ==
    IF Stable(current_size, current_time, sizes[file_id], stamps[file_id])
    THEN [ret |-> TRUE, file_sizes |-> sizes, file_timestamps |-> stamps]
    ELSE [ret |-> FALSE, file_sizes |-> Put(sizes, file_id, current_size),
          file_timestamps |-> IF current_size # sizes[file_id]
                              THEN Put(stamps, file_id, current_time)
                              ELSE stamps]

\* lines 46-54: is_file_complete for a file not seen before
FirstSeen(file_id, current_size, current_time, sizes, stamps) ==
    [ret |-> FALSE, file_sizes |-> Put(sizes, file_id, current_size),
     file_timestamps |-> Put(stamps, file_id, current_time)]

\* lines 21-54: what is_file_complete returns and what it leaves in file_sizes
\* and file_timestamps
is_file_complete(file_id, current_size, current_time, sizes, stamps) ==
    IF file_id \in DOMAIN sizes
    THEN SeenAgain(file_id, current_size, current_time, sizes, stamps)
    ELSE FirstSeen(file_id, current_size, current_time, sizes, stamps)

\* an entry of mlog: call number k of scan_for_new_files called is_file_complete
\* for the file at the clock reading `time`
Observed(k, id, size, time, ret) ==
    [scan |-> k, id |-> id, size |-> size, time |-> time, ret |-> ret]

\* the state of a service just constructed (lines 14-19), the folder empty
MonitorIdle ==
    /\ known_files = {}
    /\ file_sizes = EmptyDict
    /\ file_timestamps = EmptyDict
    /\ now = 0
    /\ drive = [id \in FileIds |-> NotListed]
    /\ mpc = "idle"
    /\ current_files = <<>>
    /\ new_complete_files = <<>>
    /\ new_files = <<>>
    /\ nscans = 0
    /\ mlog = <<>>
    /\ mret = <<>>
    /\ mproc = <<>>

\* lines 58-60 and 77-79: scan_for_new_files is called; the listing starts the
\* loop, and an exception ends the call with []
ScanBegin ==
    /\ mpc = "idle"
    /\ nscans < MaxScans
    /\ nscans' = nscans + 1
    /\ \E listing \in ListOutcomes :
          IF listing = "raises"
          THEN /\ mpc' = "process"
               /\ mret' = Append(mret, <<>>)
               /\ UNCHANGED current_files
          ELSE /\ mpc' = "for"
               /\ current_files' = IF listing = "listed" THEN ListAudioFiles(drive) ELSE <<>>
               /\ UNCHANGED mret
    /\ new_complete_files' = <<>>
    /\ new_files' = <<>>
    /\ UNCHANGED <<known_files, file_sizes, file_timestamps, now, drive, mlog, mproc>>
    /\ UNCHANGED <<cfgVars, modelVars, chunkVars, callVars, routerVars, syncVars>>

\* fault model: a complete file is handed out whether known or not
AfterCompleteAgain(file_info, c) ==
    /\ file_sizes' = c.file_sizes
    /\ file_timestamps' = c.file_timestamps
    /\ mlog' = Append(mlog, Observed(nscans, file_info.id, CurrentSize(file_info), now, c.ret))
    /\ IF c.ret
       THEN /\ new_complete_files' = Append(new_complete_files, file_info.id)
            /\ known_files' = known_files \cup {file_info.id}
       ELSE UNCHANGED <<new_complete_files, known_files>>

\* lines 65-73: the body of the for loop for file_info, of which is_file_complete
\* made c
AfterComplete(file_info, c) ==
    /\ file_sizes' = c.file_sizes
    /\ file_timestamps' = c.file_timestamps
    /\ mlog' = Append(mlog, Observed(nscans, file_info.id, CurrentSize(file_info), now, c.ret))
    /\ IF c.ret /\ file_info.id \notin known_files
       THEN /\ new_complete_files' = Append(new_complete_files, file_info.id)
            /\ known_files' = known_files \cup {file_info.id}
       ELSE UNCHANGED <<new_complete_files, known_files>>

\* lines 62-73: one pass through the for loop
ScanFile ==
    /\ mpc = "for"
    /\ current_files # <<>>
    /\ AfterComplete(Head(current_files),
                     is_file_complete(Head(current_files).id, CurrentSize(Head(current_files)),
                                      now, file_sizes, file_timestamps))
    /\ current_files' = Tail(current_files)
    /\ UNCHANGED <<now, drive, mpc, new_files, nscans, mret, mproc>>
    /\ UNCHANGED <<cfgVars, modelVars, chunkVars, callVars, routerVars, syncVars>>

\* line 75 and lines 88-93: the call returns new_complete_files to start_monitoring
ScanReturn ==
    /\ mpc = "for"
    /\ current_files = <<>>
    /\ mret' = Append(mret, new_complete_files)
    /\ new_files' = new_complete_files
    /\ mpc' = "process"
    /\ UNCHANGED <<known_files, file_sizes, file_timestamps, now, drive, current_files,
                   new_complete_files, nscans, mlog, mproc>>
    /\ UNCHANGED <<cfgVars, modelVars, chunkVars, callVars, routerVars, syncVars>>

\* the 'status' of what process_new_file returns (lines 101-133)
ProcessStatuses == {"downloaded", "download_failed", "error"}

\* lines 92-93: process_new_file for the next of the files returned
ProcessNewFile ==
    /\ mpc = "process"
    /\ new_files # <<>>
    /\ \E status \in ProcessStatuses :
          mproc' = Append(mproc, [file_id |-> Head(new_files), status |-> status])
    /\ new_files' = Tail(new_files)
    /\ UNCHANGED <<known_files, file_sizes, file_timestamps, now, drive, mpc, current_files,
                   new_complete_files, nscans, mlog, mret>>
    /\ UNCHANGED <<cfgVars, modelVars, chunkVars, callVars, routerVars, syncVars>>

\* lines 95 and 99: the loop goes to sleep
Sleep ==
    /\ mpc = "process"
    /\ new_files = <<>>
    /\ mpc' = "idle"
    /\ UNCHANGED <<known_files, file_sizes, file_timestamps, now, drive, current_files,
                   new_complete_files, new_files, nscans, mlog, mret, mproc>>
    /\ UNCHANGED <<cfgVars, modelVars, chunkVars, callVars, routerVars, syncVars>>

\* the clock readings between two calls differ by these amounts, or by sums of them
ClockSteps == {30, 31}

\* the environment: time passes while the loop sleeps
Tick ==
    /\ mpc = "idle"
    /\ \E d \in ClockSteps :
          /\ now + d <= MaxTime
          /\ now' = now + d
    /\ UNCHANGED <<known_files, file_sizes, file_timestamps, drive, mpc, current_files,
                   new_complete_files, new_files, nscans, mlog, mret, mproc>>
    /\ UNCHANGED <<cfgVars, modelVars, chunkVars, callVars, routerVars, syncVars>>

\* the environment: a file appears in the folder, grows, shrinks or leaves it
DriveChange ==
    /\ mpc = "idle"
    /\ \E id \in FileIds, e \in DriveEntries :
          /\ e \in EntriesOf(id)
          /\ drive[id] # e
          /\ drive' = [drive EXCEPT ![id] = e]
    /\ UNCHANGED <<known_files, file_sizes, file_timestamps, now, mpc, current_files,
                   new_complete_files, new_files, nscans, mlog, mret, mproc>>
    /\ UNCHANGED <<cfgVars, modelVars, chunkVars, callVars, routerVars, syncVars>>

-----------------------------------------------------------------------------
(* FileSyncService._download_file_with_retry (file_sync_service.py) *)

\* there is no file at local_path
NoFile == [exists |-> FALSE, size |-> 0]

\* the file at local_path has z bytes
OnDisk(z) == [exists |-> TRUE, size |-> z]

\* the sizes, in bytes, of the file on Drive and of what a download writes
FileSizes == {3, 7}

\* google_drive_service.py lines 183-219, what download_file does: it returns
\* False before opening local_path, or it opens local_path for writing and
\* leaves `size` bytes there, returning True, or False when an exception ended it
DownloadOutcomes ==
    {[success |-> FALSE, opened |-> FALSE, size |-> 0]}
       \cup {[success |-> ok, opened |-> TRUE, size |-> z] : ok \in BOOLEAN, z \in {0} \cup FileSizes}

\* the file at local_path after download_file did `out`
Downloaded(out, before) == IF out.opened THEN OnDisk(out.size) ELSE before

\* fault model: the size is not compared
ValidateAnySize(expected, file, readable) ==
    IF ~file.exists THEN FALSE ELSE readable

\* lines 183-211: _validate_download for a file of `size` bytes (or no file) of
\* which the first kilobyte can be read or not
validate_download(expected, file, readable) ==
    IF ~file.exists THEN FALSE
    ELSE IF expected # file.size THEN FALSE
    ELSE readable

\* fault model: the file that failed validation stays
UnlinkedNot(file) == file

\* lines 168-169: the file is removed if it is there
Unlinked(file) == NoFile

\* an entry of dlog: the pass for `attempt`, whether download_file returned True,
\* whether the file passed validation, and the file the pass left at local_path
Pass(k, downloaded, valid, left) ==
    [attempt |-> k, downloaded |-> downloaded, valid |-> valid, left |-> left]

\* lines 171-174: the wait after the pass for `attempt`
Backoff(k, retries) == IF k < retries - 1 THEN 2 ^ k ELSE 0

\* the state before any call, nothing at local_path
SyncStart ==
    /\ dpc = "idle"
    /\ max_retries = 0
    /\ attempt = 0
    /\ expected_size = 0
    /\ dret = None
    /\ dlog = <<>>
    /\ slept = 0

SyncIdle == SyncStart /\ local_file = NoFile

\* lines 147-151: the call, for a file of `size` bytes on Drive
DownloadBegin(retries, size) ==
    /\ dpc = "idle"
    /\ dpc' = "for"
    /\ max_retries' = retries
    /\ expected_size' = size
    /\ attempt' = 0
    /\ UNCHANGED <<local_file, dret, dlog, slept>>
    /\ UNCHANGED <<cfgVars, modelVars, chunkVars, callVars, routerVars, monitorVars>>

\* lines 160-174 after a download that returned True and left `file`: the call
\* returns True, or the file is removed and the loop goes on
AfterValidate(valid, file) ==
    IF valid
    THEN /\ dpc' = "returned"
         /\ dret' = TRUE
         /\ local_file' = file
         /\ dlog' = Append(dlog, Pass(attempt, TRUE, TRUE, file))
         /\ UNCHANGED <<attempt, slept>>
    ELSE /\ local_file' = Unlinked(file)
         /\ dlog' = Append(dlog, Pass(attempt, TRUE, FALSE, Unlinked(file)))
         /\ slept' = slept + Backoff(attempt, max_retries)
         /\ attempt' = attempt + 1
         /\ UNCHANGED <<dpc, dret>>

\* lines 153-174: one pass through the for loop, download_file doing `out`
AfterDownload(out, file, readable) ==
    IF out.success
    THEN AfterValidate(validate_download(expected_size, file, readable), file)
    ELSE /\ local_file' = file
         /\ dlog' = Append(dlog, Pass(attempt, FALSE, FALSE, file))
         /\ slept' = slept + Backoff(attempt, max_retries)
         /\ attempt' = attempt + 1
         /\ UNCHANGED <<dpc, dret>>

\* fault model: one pass more than max_retries
MayRetryOnceMore(k, retries) == k <= retries

\* line 153: the loop has a pass left
MayRetry(k, retries) == k < retries

\* lines 153-177: one pass through the for loop
DownloadPass ==
    /\ dpc = "for"
    /\ MayRetry(attempt, max_retries)
    /\ \E out \in DownloadOutcomes, readable \in BOOLEAN :
          AfterDownload(out, Downloaded(out, local_file), readable)
    /\ UNCHANGED <<max_retries, expected_size>>
    /\ UNCHANGED <<cfgVars, modelVars, chunkVars, callVars, routerVars, monitorVars>>

\* lines 179-181: the loop is exhausted
DownloadGiveUp ==
    /\ dpc = "for"
    /\ ~MayRetry(attempt, max_retries)
    /\ dpc' = "returned"
    /\ dret' = FALSE
    /\ UNCHANGED <<max_retries, attempt, expected_size, local_file, dlog, slept>>
    /\ UNCHANGED <<cfgVars, modelVars, chunkVars, callVars, routerVars, monitorVars>>

-----------------------------------------------------------------------------
(* Specifications *)

ServiceInit ==
    /\ chunk_length = default_chunk_length
    /\ overlap_length = default_overlap_length
    /\ model = FALSE
    /\ processor = FALSE
    /\ loads = 0
    /\ slog = <<>>

ChunkerIdle ==
    /\ audio_len = 0
    /\ chunks = <<>>
    /\ start_sample = 0
    /\ cpc = "idle"

CallIdle ==
    /\ spc = "idle"
    /\ sfile = None
    /\ si = 0
    /\ segments = <<>>
    /\ full_text_parts = <<>>
    /\ sresult = NoResult
    /\ strace = <<>>
    /\ ncalls = 0

RouterIdle ==
    /\ sessions = <<>>
    /\ transcripts = <<>>
    /\ req = [r \in Requests |-> IdleRequest]

\* the router: requests whose repository calls interleave
Init ==
    /\ ServiceInit
    /\ ChunkerIdle
    /\ CallIdle
    /\ RouterIdle
    /\ converted = {"a.wav"}
    /\ originals = Filenames
    /\ MonitorIdle
    /\ SyncIdle

Handle(r) ==
    \/ QuerySession(r)
    \/ QuerySessionFails(r)
    \/ QueryTranscript(r)
    \/ QueryTranscriptFails(r)
    \/ CreateSession(r)
    \/ CreateSessionFails(r)
    \/ Transcribe(r)
    \/ LookupTranscript(r)
    \/ LookupTranscriptFails(r)
    \/ CommitSuccess(r)
    \/ CommitSuccessFails(r)
    \/ CommitError(r)
    \/ CommitErrorFails(r)

Next ==
    \/ \E r \in Requests, f \in Filenames : Receive(r, f)
    \/ \E r \in Requests : Handle(r)
    \/ \E f \in Filenames : RemoveFile(f)

Spec == Init /\ [][Next]_vars

\* the router, one request at a time
SeqReceive(r, f) ==
    /\ \A q \in Requests : ~InFlight(q)
    /\ Receive(r, f)

SeqNext ==
    \/ \E r \in Requests, f \in Filenames : SeqReceive(r, f)
    \/ \E r \in Requests : Handle(r)
    \/ \E f \in Filenames : RemoveFile(f)

SeqSpec == Init /\ [][SeqNext]_vars

\* the chunker alone, over every configuration and buffer length within the bounds
ChunkInit ==
    /\ chunk_length \in 0..MaxLenTicks
    /\ overlap_length \in 0..MaxLenTicks
    /\ model = FALSE
    /\ processor = FALSE
    /\ loads = 0
    /\ slog = <<>>
    /\ audio_len \in 0..MaxSamples
    /\ chunks = <<>>
    /\ start_sample = 0
    /\ cpc = "begin"
    /\ CallIdle
    /\ RouterIdle
    /\ converted = {}
    /\ originals = {}
    /\ MonitorIdle
    /\ SyncIdle

ChunkNext ==
    \/ ChunkBegin
    \/ ChunkLoop

ChunkSpec == ChunkInit /\ [][ChunkNext]_vars

\* what the service specification lets a file decode to: nothing (the decoder
\* raises), 10 s (one chunk) or 65 s (three chunks)
SvcDecodes == {DecodeRaises, Buffer(10 * sample_rate), Buffer(65 * sample_rate)}

\* and what it lets the backend do with a chunk
SvcOuts ==
    {Raised, Decoded(<<>>), Decoded(<<"a", " ", "b">>), Decoded(<<" ", "b", " ", "c">>)}

\* the service alone: calls of transcribe_audio one after the other, the model
\* unloaded between them or not
SvcInit ==
    /\ ServiceInit
    /\ ChunkerIdle
    /\ CallIdle
    /\ RouterIdle
    /\ converted = {"a.wav"}
    /\ originals = {}
    /\ MonitorIdle
    /\ SyncIdle

SvcNext ==
    \/ \E f \in Filenames : CallBegin(f)
    \/ CallCheck
    \/ CallLoad
    \/ CallDecode(SvcDecodes)
    \/ ChunkBegin
    \/ ChunkLoop
    \/ CallChunked
    \/ CallChunk(SvcOuts)
    \/ CallFinish
    \/ UnloadModel

SvcSpec == SvcInit /\ [][SvcNext]_vars

\* the tokens the reconciliation specification lets the backend say
TokA == <<"a">>

TokB == <<"b">>

TokThe == <<"t", "h", "e">>

TokOld == <<"o", "l", "d">>

TokBarn == <<"b", "a", "r", "n">>

TokWas == <<"w", "a", "s">>

TokRed == <<"r", "e", "d">>

\* the backend decodes a chunk to these words, single spaces between them
Said(words) == Decoded(Join(Space, words))

\* every text of one to three words over the two tokens a and b
ShortTexts ==
    {Said(<<x>>) : x \in {TokA, TokB}}
      \cup {Said(<<x, y>>) : x \in {TokA, TokB}, y \in {TokA, TokB}}
      \cup {Said(<<x, y, z>>) : x \in {TokA, TokB}, y \in {TokA, TokB}, z \in {TokA, TokB}}

\* what the reconciliation specification lets the backend do with a chunk: raise,
\* decode to whitespace, to a short text, to a text that repeats three words of
\* which the last is the first, to a text with runs of whitespace, or to one of
\* the two sentences about the barn
ReconOuts ==
    {Raised, Decoded(<<" ">>), Said(<<TokA, TokB, TokA, TokB>>),
     Decoded(<<" ", "a", " ", " ", "b", " ">>),
     Said(<<TokB, TokThe, TokOld, TokBarn>>),
     Said(<<TokThe, TokOld, TokBarn, TokWas, TokRed>>)} \cup ShortTexts

\* and what it lets a file decode to: 65 s (three chunks)
ReconDecodes == {Buffer(65 * sample_rate)}

\* the service with the backend's texts varied: calls of transcribe_audio for a
\* recording of three chunks
ReconNext ==
    \/ \E f \in Filenames : CallBegin(f)
    \/ CallCheck
    \/ CallLoad
    \/ CallDecode(ReconDecodes)
    \/ ChunkBegin
    \/ ChunkLoop
    \/ CallChunked
    \/ CallChunk(ReconOuts)
    \/ CallFinish
    \/ UnloadModel

ReconSpec == SvcInit /\ [][ReconNext]_vars

\* the state of the transcription service and the router while the Drive
\* services are followed
RestIdle ==
    /\ ServiceInit
    /\ ChunkerIdle
    /\ CallIdle
    /\ RouterIdle
    /\ converted = {}
    /\ originals = {}

\* the file monitor: calls of scan_for_new_files from start_monitoring at clock
\* readings the environment chooses, over a folder that changes between them
MonitorInit == RestIdle /\ MonitorIdle /\ SyncIdle

MonitorNext ==
    \/ ScanBegin
    \/ ScanFile
    \/ ScanReturn
    \/ ProcessNewFile
    \/ Sleep
    \/ Tick
    \/ DriveChange

MonitorSpec == MonitorInit /\ [][MonitorNext]_vars

\* one call of _download_file_with_retry, for every max_retries within the bound
\* and every file that may lie at local_path before it
SyncInit ==
    /\ RestIdle
    /\ MonitorIdle
    /\ SyncStart
    /\ local_file \in {NoFile} \cup {OnDisk(z) : z \in FileSizes}

SyncNext ==
    \/ \E retries \in 0..MaxRetries, size \in FileSizes : DownloadBegin(retries, size)
    \/ DownloadPass
    \/ DownloadGiveUp

SyncSpec == SyncInit /\ [][SyncNext]_vars

-----------------------------------------------------------------------------
(* Properties of the router *)

Done(r) == req[r].pc = "done"

IsResponse(o) == o.kind = "TranscriptionResponse"

\* the requests that called transcribe_audio for filename f
RunsFor(f) == {r \in Requests : req[r].filename = f /\ req[r].inferred}

\* the transcript rows of session sid
TranscriptsOf(rows, sid) == {k \in 1..Len(rows) : rows[k].session_id = sid}

\* the processing_status of session sid
StatusOf(rows, sid) == rows[CHOOSE k \in 1..Len(rows) : rows[k].id = sid].processing_status

\* request r ends in this step
Ends(r) == req[r].pc # "done" /\ req'[r].pc = "done"

C2_SecondReturnsStored ==
    \A q, r \in Requests :
       (r = q + 1 /\ Done(q) /\ IsResponse(req[q].outcome) /\ req[q].outcome.success
          /\ req[r].filename = req[q].filename)
       => /\ ~req[r].inferred
          /\ (Done(r) /\ IsResponse(req[r].outcome))
                => /\ req[r].outcome.success
                   /\ req[r].outcome.session_id = req[q].outcome.session_id
                   /\ req[r].outcome.full_text = req[q].outcome.full_text

\* the first request ran the pipeline to a text, the second returned it
C2_Witness ==
    /\ Done(1) /\ req[1].inferred /\ IsResponse(req[1].outcome) /\ req[1].outcome.success
    /\ req[1].outcome.full_text # <<>>
    /\ Done(2) /\ req[2].filename = req[1].filename
    /\ IsResponse(req[2].outcome) /\ req[2].outcome.success
    /\ req[2].outcome.full_text = req[1].outcome.full_text

\* C3: when a request ends, its session's status and transcript agree: the
\* status is not `transcribed` without a transcript row for the session, and a
\* request that wrote a transcript leaves the status `transcribed`.
C3_StatusAgreesWithTranscript ==
    [][\A r \in Requests :
          (Ends(r) /\ req'[r].session_id # 0)
             => /\ StatusOf(sessions', req'[r].session_id) = "transcribed"
                   => TranscriptsOf(transcripts', req'[r].session_id) # {}
                /\ req'[r].wrote # 0
                   => StatusOf(sessions', req'[r].session_id) = "transcribed"]_vars

\* one request has ended with a transcript written, another with the error
\* response, both on one session
C3_Witness ==
    \E q, r \in Requests :
       /\ Done(q) /\ req[q].wrote # 0
       /\ Done(r) /\ IsResponse(req[r].outcome) /\ ~req[r].outcome.success
       /\ req[r].session_id = req[q].session_id

\* C4 as stated: in every reachable state each session has at most one
\* transcript row
C4_OneTranscriptPerSession ==
    \A k \in 1..Len(sessions) : Cardinality(TranscriptsOf(transcripts, sessions[k].id)) <= 1

\* C5, as the code has it: a request for a filename that is in neither location
\* ends at once with HTTPException 404 (not a TranscriptionResponse), and no
\* session or transcript row is created or changed; a request whose file is
\* found goes on to the session query.
C5_MissingFileRaises404 ==
    [][\A r \in Requests :
          (req[r].pc = "idle" /\ req'[r].pc # "idle")
             => IF req'[r].filename \notin (converted \cup originals)
                THEN /\ req'[r].pc = "done"
                     /\ req'[r].outcome = NotFoundOutcome
                     /\ sessions' = sessions
                     /\ transcripts' = transcripts
                ELSE req'[r].pc = "query_session"]_vars

\* a request ended with 404 while rows were stored, and they are as they were
C5_Witness ==
    \E r \in Requests :
       /\ Done(r) /\ req[r].outcome = NotFoundOutcome
       /\ ~req[r].inferred /\ req[r].session_id = 0
       /\ Len(sessions) > 0 /\ Len(transcripts) > 0

\* C5 as stated: the request for a missing file returns a response with
\* success = false and creates or modifies no row
C5_MissingFileReturnsFailure ==
    [][\A r \in Requests :
          (req[r].pc = "idle" /\ req'[r].pc # "idle"
             /\ req'[r].filename \notin (converted \cup originals))
             => /\ req'[r].pc = "done"
                /\ IsResponse(req'[r].outcome)
                /\ ~req'[r].outcome.success
                /\ sessions' = sessions
                /\ transcripts' = transcripts]_vars

\* C6, as the code has it: a request ends in one of three ways. A missing file
\* ends it with HTTPException 404; a failing repository call ends it with
\* HTTPException 500; otherwise it returns a TranscriptionResponse. The call of
\* transcribe_audio never ends the request: a pipeline failure is returned as a
\* response with success = false and the pipeline's message.
C6_ResponseOrHTTPException ==
    [][\A r \in Requests :
          Ends(r) =>
             CASE req[r].pc = "idle" -> req'[r].outcome = NotFoundOutcome
               [] req[r].pc = "transcribe" -> FALSE
               [] req[r].pc = "commit_error" ->
                    \/ req'[r].outcome = UnexpectedOutcome
                    \/ /\ IsResponse(req'[r].outcome)
                       /\ ~req'[r].outcome.success
                       /\ req'[r].outcome.error_message = req[r].result.error_message
                       /\ req'[r].outcome.error_message # None
               [] req[r].pc \in {"commit_success", "query_transcript"} ->
                    \/ req'[r].outcome = UnexpectedOutcome
                    \/ IsResponse(req'[r].outcome) /\ req'[r].outcome.success
               [] OTHER -> req'[r].outcome = UnexpectedOutcome]_vars

\* one request has ended with the error response of a failed pipeline, another
\* with 404
C6_Witness ==
    \E q, r \in Requests :
       /\ Done(q) /\ req[q].inferred /\ IsResponse(req[q].outcome)
       /\ ~req[q].outcome.success /\ req[q].outcome.error_message # None
       /\ Done(r) /\ req[r].outcome = NotFoundOutcome

\* C6 as stated: every request ends by returning a TranscriptionResponse
C6_AlwaysAResponse == \A r \in Requests : Done(r) => IsResponse(req[r].outcome)

-----------------------------------------------------------------------------
(* Properties of the service *)

\* strace has an entry of this phase that failed
FailedIn(phase) == \E k \in 1..Len(strace) : strace[k].phase = phase /\ strace[k].failed

IsChunkEntry(e) == e.phase = "TranscribingChunk"

\* the chunks of the call so far, with what the backend did and the text
\* _transcribe_chunk returned
ChunkEntries == SelectSeq(strace, IsChunkEntry)

GaveNoText(e) == e.failed \/ e.text = <<>>

GaveText(e) == ~GaveNoText(e)

\* w is a run of consecutive elements of s
IsInfix(w, s) == \E i \in 0..(Len(s) - Len(w)) : SubSeq(s, i + 1, i + Len(w)) = w

RECURSIVE WordCount(_)
WordCount(entries) ==
    IF entries = <<>> THEN 0
    ELSE Len(Split(Head(entries).text)) + WordCount(Tail(entries))

\* the call returned a failure with a message (the fixed text of lines 196 and
\* 208, or the text of the exception, line 285)
ReturnedFailure ==
    /\ sresult.returned
    /\ ~sresult.success
    /\ sresult.error_message # None

\* C7: transcribe_audio never raises to its caller; when the file does not
\* exist, when model loading fails or when decoding fails, it returns a result
\* with success = false and an error message.
C7_NeverRaises ==
    /\ spc # "raised"
    /\ (spc = "returned" /\ sfile \notin converted) => ReturnedFailure
    /\ (spc = "returned" /\ FailedIn("ModelLoading")) => ReturnedFailure
    /\ (spc = "returned" /\ FailedIn("Preprocessing")) => ReturnedFailure

\* a call has returned after the decoder raised
C7_Witness ==
    /\ spc = "returned"
    /\ FailedIn("Preprocessing")
    /\ ~sresult.success

\* the backend raised or gave no text for exactly one chunk of several
OneChunkGaveNoText ==
    /\ Len(chunks) > 1
    /\ Len(SelectSeq(ChunkEntries, GaveNoText)) = 1

\* C8: when the backend raises or yields empty text for exactly one chunk of a
\* multi-chunk recording, the call returns success = true with chunks_processed
\* the number of chunks; the words of every other chunk's text are in the full
\* text, in a row, and the failing chunk adds no segment and no word.
C8_OneChunkFails ==
    (spc = "returned" /\ OneChunkGaveNoText)
       => /\ sresult.success
          /\ sresult.chunks_processed = Len(chunks)
          /\ Len(ChunkEntries) = Len(chunks)
          /\ \A k \in 1..Len(ChunkEntries) :
                GaveText(ChunkEntries[k])
                   => IsInfix(Split(ChunkEntries[k].text), Split(sresult.full_text))
          /\ Len(sresult.segments) <= Len(chunks) - 1
          /\ Len(Split(sresult.full_text)) <= WordCount(SelectSeq(ChunkEntries, GaveText))

\* a three-chunk call has returned after the backend raised for one chunk and
\* gave text for the two others
C8_Witness ==
    /\ spc = "returned"
    /\ Len(chunks) = 3
    /\ OneChunkGaveNoText
    /\ \E k \in 1..Len(ChunkEntries) : ChunkEntries[k].failed
    /\ Len(sresult.segments) = 2

-----------------------------------------------------------------------------
(* Properties of the chunker *)

\* the chunker has returned for a configuration with 0 < O < L
ChunkedWithOverlap ==
    /\ cpc = "done"
    /\ 0 < overlap_length
    /\ overlap_length < chunk_length

\* the time the chunks i and i + 1 share
OverlapTime(i) == chunks[i].end_time - chunks[i + 1].start_time

\* the chunks' time ranges union to [0, D) with no gap
CoversBuffer ==
    /\ Len(chunks) >= 1
    /\ chunks[1].start_time = 0
    /\ chunks[Len(chunks)].end_time = TimeOf(audio_len)
    /\ \A i \in 1..Len(chunks) : chunks[i].start_time <= chunks[i].end_time
    /\ \A i \in 1..(Len(chunks) - 1) : chunks[i + 1].start_time <= chunks[i].end_time

\* C9, as the code has it: the lengths are truncated to whole samples. For
\* 0 < O < L with int(O * rate) < int(L * rate) the chunks' ranges union to
\* exactly [0, D) with no gap and every pair of consecutive chunks, the last
\* included, overlaps by exactly int(O * rate) samples (which is O only when
\* O is a whole number of samples). With int(O * rate) = int(L * rate) the start
\* does not advance and the chunker returns only for a buffer of at most
\* int(L * rate) samples.
C9_ChunksCoverWithSampleOverlap ==
    ChunkedWithOverlap
       => IF overlap_samples < chunk_samples
          THEN /\ CoversBuffer
               /\ \A i \in 1..(Len(chunks) - 1) : OverlapTime(i) = TimeOf(overlap_samples)
          ELSE /\ audio_len <= chunk_samples
               /\ CoversBuffer

\* three chunks or more, cut with an overlap that is not a whole number of samples
C9_Witness ==
    /\ ChunkedWithOverlap
    /\ Len(chunks) >= 3
    /\ TimeOf(overlap_samples) # overlap_length

\* C9 as stated: the ranges union to [0, D) and consecutive chunks overlap by
\* exactly O, except possibly the last pair when the remainder is shorter than O
C9_OverlapIsExactlyO ==
    ChunkedWithOverlap
       => /\ CoversBuffer
          /\ \A i \in 1..(Len(chunks) - 1) :
                \/ OverlapTime(i) = overlap_length
                \/ /\ i = Len(chunks) - 1
                   /\ chunks[i + 1].end_time - chunks[i + 1].start_time < overlap_length

\* C10: when the buffer's duration D is at most the chunk length L (D = L and
\* the empty buffer included) exactly one chunk is produced, and it spans [0, D).
C10_ShortBufferOneChunk ==
    (cpc = "done" /\ TimeOf(audio_len) <= chunk_length)
       => /\ Len(chunks) = 1
          /\ chunks[1].start_sample = 0
          /\ chunks[1].end_sample = audio_len
          /\ chunks[1].start_time = 0
          /\ chunks[1].end_time = TimeOf(audio_len)

\* the chunker has returned for a buffer exactly as long as a chunk
C10_Witness ==
    /\ cpc = "done"
    /\ audio_len > 0
    /\ TimeOf(audio_len) = chunk_length
    /\ Len(chunks) = 1

\* the time ranges of the chunks, in order
ChunkRanges == [k \in 1..Len(chunks) |-> <<chunks[k].start_time, chunks[k].end_time>>]

\* the variable chunks holds the chunk list of the buffer of audio_len samples
ChunksCut == cpc = "done" \/ spc = "for" \/ (spc = "returned" /\ sresult.success)

\* a buffer of 65 s is being processed with chunk length 30 s and overlap 1 s
Is65sDefault ==
    /\ audio_len = 65 * sample_rate
    /\ chunk_length = Seconds(30)
    /\ overlap_length = Seconds(1)

\* C11: a 65 s buffer with chunk length 30 s and overlap 1 s is cut into exactly
\* the ranges [0,30), [29,59), [58,65), in that order, and a successful
\* transcription of it reports chunks_processed = 3.
C11_ThreeChunksOf65s ==
    /\ (Is65sDefault /\ ChunksCut)
          => ChunkRanges = << <<Seconds(0), Seconds(30)>>, <<Seconds(29), Seconds(59)>>,
                              <<Seconds(58), Seconds(65)>> >>
    /\ (Is65sDefault /\ spc = "returned" /\ sresult.success)
          => sresult.chunks_processed = 3

\* a call for a 65 s buffer has returned success
C11_Witness ==
    /\ Is65sDefault
    /\ spc = "returned"
    /\ sresult.success
    /\ sresult.audio_duration_seconds = Seconds(65)
    /\ Len(chunks) = 3

\* C12: in every chunk sequence produced, for any configuration, the end times
\* are non-decreasing in sequence order, the last chunk ends at the buffer's
\* duration, and every chunk's sample range lies within [0, sample count].
C12_ChunksOrderedWithinBuffer ==
    cpc = "done"
       => /\ \A i \in 1..(Len(chunks) - 1) : chunks[i].end_time <= chunks[i + 1].end_time
          /\ chunks[Len(chunks)].end_time = TimeOf(audio_len)
          /\ \A i \in 1..Len(chunks) :
                /\ 0 <= chunks[i].start_sample
                /\ chunks[i].start_sample <= chunks[i].end_sample
                /\ chunks[i].end_sample <= audio_len

\* a sequence of three chunks or more whose last chunk is shorter than a chunk
C12_Witness ==
    /\ cpc = "done"
    /\ Len(chunks) >= 3
    /\ chunks[Len(chunks)].end_sample - chunks[Len(chunks)].start_sample < chunk_samples

\* C13 as stated: a configuration whose overlap is not smaller than the chunk
\* length is rejected, so for a buffer longer than one chunk the chunker cuts no
\* chunk with it
C13_NonPositiveStrideRejected ==
    (overlap_length >= chunk_length /\ audio_len > chunk_samples) => chunks = <<>>

-----------------------------------------------------------------------------
(* Properties of the reconciliation *)

\* this step is one pass through the for loop that did not raise
ChunkStep == spc = "for" /\ si' = si + 1

\* the text _transcribe_chunk returned in this step
StepText == strace'[Len(strace')].text

\* the text accepted last before this step
PrevPart == full_text_parts[Len(full_text_parts)]

\* this step compares the chunk's text with a previously accepted text
ComparingStep == ChunkStep /\ Len(full_text_parts) > 0 /\ StepText # <<>>

\* the lengths j (1 to 3) for which the last j tokens of prev are the first j
\* tokens of text
Matches(prev, text) ==
    {j \in 1..3 : /\ j <= Len(Split(prev))
                  /\ j <= Len(Split(text))
                  /\ LastN(Split(prev), j) = Take(Split(text), j)}

Largest(S) == CHOOSE j \in S : \A k \in S : k <= j

\* the loop's lists after a step that drops the first j tokens of the text
Dropped(j, text) ==
    IF Drop(Split(text), j) = <<>>
    THEN /\ full_text_parts' = full_text_parts
         /\ segments' = segments
    ELSE /\ full_text_parts' = Append(full_text_parts, Join(Space, Drop(Split(text), j)))
         /\ Len(segments') = Len(segments) + 1

\* C14 as stated: when several suffix lengths match, the largest is the number
\* of leading tokens dropped from the new chunk's text
C14_LargestOverlapDropped ==
    [][(ComparingStep /\ Matches(PrevPart, StepText) # {})
          => Dropped(Largest(Matches(PrevPart, StepText)), StepText)]_vars

\* C15 as stated: when the last three tokens of the previously accepted text are
\* the first three tokens of the next chunk's text, those three tokens are
\* dropped from it, so that they appear once in the full text
C15_ThreeTokenOverlapOnce ==
    [][(ComparingStep /\ 3 \in Matches(PrevPart, StepText)) => Dropped(3, StepText)]_vars

\* the texts the backend gave for the chunks of the call, the empty ones left out
GivenTexts == [k \in 1..Len(SelectSeq(ChunkEntries, GaveText)) |->
                  SelectSeq(ChunkEntries, GaveText)[k].text]

\* no text given has leading tokens that end the text given before it
NoCommonTokens ==
    \A k \in 1..(Len(GivenTexts) - 1) : Matches(GivenTexts[k], GivenTexts[k + 1]) = {}

\* C16: when no suffix of one to three tokens of the previously accepted text is
\* the prefix of the same length of the next chunk's text, that text is appended
\* unmodified; and a call whose chunk texts have no such common tokens returns
\* as full text their plain space-join, no token dropped.
C16_NoOverlapAppendsUnmodified ==
    /\ [][(ComparingStep /\ Matches(PrevPart, StepText) = {})
             => /\ full_text_parts' = Append(full_text_parts, StepText)
                /\ Len(segments') = Len(segments) + 1
                /\ segments'[Len(segments')].text = StepText]_vars
    /\ []((spc = "returned" /\ sresult.success /\ NoCommonTokens)
             => sresult.full_text = Strip(Join(Space, GivenTexts)))

\* a call has returned the plain join of three texts without common tokens
C16_Witness ==
    /\ spc = "returned"
    /\ sresult.success
    /\ NoCommonTokens
    /\ Len(GivenTexts) = 3
    /\ Len(sresult.segments) = 3

\* the step leaves the accepted segments and text parts as they were
NothingAccepted == segments' = segments /\ full_text_parts' = full_text_parts

\* the step appends one text part that is not blank, and its segment
OneAccepted ==
    /\ Len(full_text_parts') = Len(full_text_parts) + 1
    /\ SubSeq(full_text_parts', 1, Len(full_text_parts)) = full_text_parts
    /\ Strip(full_text_parts'[Len(full_text_parts')]) # <<>>
    /\ Len(segments') = Len(segments) + 1
    /\ SubSeq(segments', 1, Len(segments)) = segments
    /\ segments'[Len(segments')].text = full_text_parts'[Len(full_text_parts')]

\* C17: a chunk whose text is empty or whitespace-only, as returned by inference
\* or after the overlap trimming, adds no segment and no text part and leaves
\* every previously accepted segment and text part unchanged; any other chunk
\* adds exactly one of each.
C17_BlankChunkAddsNothing ==
    [][ChunkStep
          => /\ NothingAccepted \/ OneAccepted
             /\ Strip(StepText) = <<>> => NothingAccepted
             /\ (ComparingStep /\ Strip(RemoveOverlap(PrevPart, StepText)) = <<>>)
                   => NothingAccepted]_vars

\* the second chunk's text was not empty and was trimmed to nothing
C17_Witness ==
    /\ spc = "for"
    /\ si = 3
    /\ Len(ChunkEntries) = 2
    /\ GaveText(ChunkEntries[1])
    /\ GaveText(ChunkEntries[2])
    /\ Len(full_text_parts) = 1
    /\ Len(segments) = 1

\* the texts of the segments, in order
SegmentTexts(segs) == [k \in 1..Len(segs) |-> segs[k].text]

\* C18: in every successful result, full_text is the texts of the result's
\* segments joined by single spaces in chunk order, stripped at the end.
C18_FullTextIsJoinOfSegments ==
    (spc = "returned" /\ sresult.success)
       => /\ sresult.full_text = Strip(Join(Space, SegmentTexts(sresult.segments)))
          /\ \A k \in 1..(Len(sresult.segments) - 1) :
                sresult.segments[k].end_time <= sresult.segments[k + 1].end_time

\* a successful result of three segments
C18_Witness ==
    /\ spc = "returned"
    /\ sresult.success
    /\ Len(sresult.segments) = 3
    /\ sresult.full_text # <<>>

-----------------------------------------------------------------------------
(* Properties of the router's persistence *)

\* request r gets the result of transcribe_audio in this step
GetsResult(r) == req[r].pc = "transcribe" /\ req'[r].pc \in {"commit_error", "lookup_transcript"}

\* request r returns a response in this step, from position pc
Returns(r, pc) == Ends(r) /\ req[r].pc = pc /\ IsResponse(req'[r].outcome)

\* C19: when transcribe_audio returns success = false, the request goes to the
\* error branch without touching a row, and the response it then returns (the
\* commit succeeding) leaves the session's status `error`, creates or modifies
\* no transcript row, and carries the pipeline's error message.
C19_FailureSetsError ==
    [][\A r \in Requests :
          /\ (GetsResult(r) /\ ~req'[r].result.success)
                => /\ req'[r].pc = "commit_error"
                   /\ sessions' = sessions
                   /\ transcripts' = transcripts
          /\ Returns(r, "commit_error")
                => /\ StatusOf(sessions', req[r].session_id) = "error"
                   /\ transcripts' = transcripts
                   /\ req'[r].wrote = 0
                   /\ ~req'[r].outcome.success
                   /\ req'[r].outcome.session_id = req[r].session_id
                   /\ req'[r].outcome.error_message = req[r].result.error_message
                   /\ req'[r].outcome.error_message # None]_vars

\* a request has returned the error response while a transcript of another
\* session was stored, and its session's status is `error`
C19_Witness ==
    \E r \in Requests :
       /\ Done(r) /\ req[r].inferred /\ IsResponse(req[r].outcome)
       /\ ~req[r].outcome.success
       /\ StatusOf(sessions, req[r].session_id) = "error"
       /\ Len(transcripts) > 0

\* the transcript row with this id
TranscriptRow(rows, id) == rows[CHOOSE k \in 1..Len(rows) : rows[k].id = id]

\* the segments of a result as they are to be stored
StoredSegments(result) ==
    [k \in 1..Len(result.segments) |->
        [text |-> result.segments[k].text, start_time |-> result.segments[k].start_time,
         end_time |-> result.segments[k].end_time,
         confidence |-> result.segments[k].confidence]]

\* the row holds exactly what the result says
HoldsResult(row, result) ==
    /\ row.full_text = result.full_text
    /\ row.segments = StoredSegments(result)
    /\ row.language = result.language_detected
    /\ row.model_version = result.model_used
    /\ row.processing_duration_ms = result.processing_duration_ms

\* C20: when transcribe_audio returns success = true, the request goes on to the
\* transcript lookup, and the response it then returns (the commit succeeding)
\* leaves the session's status `transcribed` and the session's transcript row,
\* the one it created or updated, holding exactly the result's full text, its
\* segments in order as {text, start_time, end_time, confidence}, its language,
\* model id and processing duration; no other transcript row is changed.
C20_SuccessStoresResult ==
    [][\A r \in Requests :
          /\ (GetsResult(r) /\ req'[r].result.success) => req'[r].pc = "lookup_transcript"
          /\ Returns(r, "commit_success")
                => /\ StatusOf(sessions', req[r].session_id) = "transcribed"
                   /\ req'[r].wrote # 0
                   /\ TranscriptRow(transcripts', req'[r].wrote).session_id
                         = req[r].session_id
                   /\ HoldsResult(TranscriptRow(transcripts', req'[r].wrote), req[r].result)
                   /\ \A k \in 1..Len(transcripts) :
                         transcripts[k].id # req'[r].wrote
                            => transcripts'[k] = transcripts[k]
                   /\ Len(transcripts') \in {Len(transcripts), Len(transcripts) + 1}]_vars

\* a request has stored a result of two segments
C20_Witness ==
    \E r \in Requests :
       /\ Done(r) /\ req[r].wrote # 0
       /\ IsResponse(req[r].outcome) /\ req[r].outcome.success
       /\ req[r].outcome.segments_count = 2
       /\ Len(TranscriptRow(transcripts, req[r].wrote).segments) = 2
       /\ StatusOf(sessions, req[r].session_id) = "transcribed"

-----------------------------------------------------------------------------
(* Properties of loading and unloading *)

IsLoad(e) == e.ev = "load"

IsUnload(e) == e.ev = "unload"

IsReturn(e) == e.ev = "return"

\* no unload has released anything and no load has failed so far
NoUnloadNoFailure == \A k \in 1..Len(slog) : ~IsUnload(slog[k]) /\ (IsLoad(slog[k]) => slog[k].ok)

\* the call in progress, or the one that has just ended, got past
\* _ensure_model_loaded
NowPastLoad ==
    \/ spc \in {"decode", "chunk", "for"}
    \/ spc = "returned" /\ EndPhase(sresult, strace) \notin {"NotStarted", "ModelLoading"}

\* some call so far got past _ensure_model_loaded
PastLoad ==
    \/ NowPastLoad
    \/ \E k \in 1..Len(slog) :
          IsReturn(slog[k]) /\ slog[k].phase \notin {"NotStarted", "ModelLoading"}

\* C21: as long as nothing has been unloaded and no load has failed, the model has
\* been loaded exactly once if some call has needed it (by the first such call,
\* after which model and processor stay set) and not at all if none has.
C21_LoadedOnceWhileResident ==
    NoUnloadNoFailure =>
        /\ loads = (IF PastLoad THEN 1 ELSE 0)
        /\ Len(SelectSeq(slog, IsLoad)) = loads
        /\ PastLoad => model /\ processor
        /\ \A k \in 1..Len(slog) :
              IsReturn(slog[k]) /\ slog[k].phase # "NotStarted"
                 => \E j \in 1..(k - 1) : IsLoad(slog[j]) /\ slog[j].call <= slog[k].call

\* two calls have succeeded one after the other, nothing unloaded, one load
C21_Witness ==
    /\ ncalls = 2 /\ spc = "returned" /\ sresult.success
    /\ NoUnloadNoFailure
    /\ loads = 1
    /\ \E k \in 1..Len(slog) : IsReturn(slog[k]) /\ slog[k].ok /\ slog[k].call = 1

\* what unload_model would leave if it were called now
Unloaded == unload_model(model, processor)

\* no load has been attempted since entry k of the log
NoLoadSince(k) == \A j \in (k + 1)..Len(slog) : ~IsLoad(slog[j])

\* C22: whatever is loaded (both, the model alone, or nothing), unload_model does
\* not raise and leaves model and processor unset, and a second unload_model leaves
\* what the first left; after an unload both stay unset until a call loads, and a
\* call begun after an unload that gets past _ensure_model_loaded has loaded.
C22_UnloadLeavesNothingLoaded ==
    /\ ~Unloaded.raised /\ ~Unloaded.model /\ ~Unloaded.processor
    /\ unload_model(Unloaded.model, Unloaded.processor) = Unloaded
    /\ \A k \in 1..Len(slog) :
          IsUnload(slog[k]) =>
             /\ NoLoadSince(k) => ~model /\ ~processor
             /\ (ncalls > slog[k].call /\ NowPastLoad)
                   => \E j \in (k + 1)..Len(slog) :
                         /\ IsLoad(slog[j]) /\ slog[j].ok
                         /\ slog[j].call > slog[k].call

\* a call loaded, the model was unloaded, and the next call loaded again and
\* succeeded
C22_Witness ==
    /\ ncalls = 2 /\ spc = "returned" /\ sresult.success
    /\ \E k \in 1..Len(slog) :
          /\ IsUnload(slog[k])
          /\ \E i \in 1..(k - 1) : IsLoad(slog[i]) /\ slog[i].ok /\ slog[i].call = 1
          /\ \E j \in (k + 1)..Len(slog) : IsLoad(slog[j]) /\ slog[j].ok /\ slog[j].call = 2

\* the call in progress, or the one that has just ended, has been through
\* _ensure_model_loaded
NowTriedLoad ==
    \/ spc \in {"decode", "chunk", "for"}
    \/ spc = "returned" /\ EndPhase(sresult, strace) # "NotStarted"

\* the call that has just ended got a buffer from the decoder
NowDecoded ==
    \E k \in 1..Len(strace) : strace[k].phase = "Preprocessing" /\ ~strace[k].failed

\* the call before this one failed in the given phase
PreviousFailedIn(phase) ==
    \E k \in 1..Len(slog) :
       IsReturn(slog[k]) /\ slog[k].call = ncalls - 1 /\ slog[k].phase = phase

\* C23: while the latest load is a failed one, model and processor are not both
\* set (whether the model was assigned or not), so a later call that has been
\* through _ensure_model_loaded has attempted the load again; a failed load or
\* decode leaves the service ready for the next call, which after a decode
\* failure finds the model still loaded and succeeds once its file decodes.
C23_FailureDoesNotBlockNextCall ==
    /\ \A k \in 1..Len(slog) :
          (IsLoad(slog[k]) /\ ~slog[k].ok /\ NoLoadSince(k))
             => /\ ~(model /\ processor)
                /\ slog[k].call < ncalls => ~NowTriedLoad
    /\ (spc = "returned" /\ ~sresult.success) => sresult.returned
    /\ (PreviousFailedIn("Preprocessing") /\ NoUnloadNoFailure)
          => /\ model /\ processor
             /\ (spc = "returned" /\ NowDecoded) => sresult.success

\* a call failed to load, and the next call loaded and succeeded
C23_Witness ==
    /\ ncalls = 2 /\ spc = "returned" /\ sresult.success
    /\ PreviousFailedIn("ModelLoading")
    /\ \A k \in 1..Len(slog) : ~IsUnload(slog[k])
    /\ \E k \in 1..Len(slog) : IsLoad(slog[k]) /\ ~slog[k].ok /\ slog[k].call = 1
    /\ \E k \in 1..Len(slog) : IsLoad(slog[k]) /\ slog[k].ok /\ slog[k].call = 2

\* a call failed to decode, and the next call succeeded without a second load
C23_DecodeWitness ==
    /\ ncalls = 2 /\ spc = "returned" /\ sresult.success
    /\ PreviousFailedIn("Preprocessing")
    /\ NoUnloadNoFailure
    /\ loads = 1

-----------------------------------------------------------------------------
(* Properties of the result *)

\* C24: a result with success = true has no error message, that is, a result
\* that has an error message has success = false.
C24_MessageOnlyOnFailure ==
    sresult.returned =>
        /\ sresult.success => sresult.error_message = None
        /\ sresult.error_message # None => ~sresult.success

\* a call has returned success = true, with segments, and no message
C24_Witness ==
    /\ spc = "returned" /\ sresult.returned /\ sresult.success
    /\ Len(sresult.segments) > 0
    /\ sresult.error_message = None

-----------------------------------------------------------------------------
(* Properties of concurrent requests *)

\* request r leaves position pc in this step
Leaves(r, pc) == req[r].pc = pc /\ req'[r].pc # pc

\* request r ends with the unexpected-error outcome in this step
EndsUnexpected(r) == Ends(r) /\ req'[r].outcome = UnexpectedOutcome

\* C25: a request whose session lookup found nothing creates a session row for
\* its filename whatever rows exist by then (unless the repository call fails),
\* and a request that has reached the call of transcribe_audio makes it: nothing
\* after the lookups looks again.
C25_LookupIsTheOnlyGate ==
    [][\A r \in Requests :
          /\ Leaves(r, "create_session")
                => \/ EndsUnexpected(r) /\ sessions' = sessions
                   \/ /\ req'[r].pc = "transcribe"
                      /\ Len(sessions') = Len(sessions) + 1
                      /\ SubSeq(sessions', 1, Len(sessions)) = sessions
                      /\ sessions'[Len(sessions')].filename = req[r].filename
                      /\ sessions'[Len(sessions')].id = req'[r].session_id
                      /\ sessions'[Len(sessions')].processing_status = "transcribing"
          /\ Leaves(r, "transcribe") => req'[r].inferred]_vars

\* two requests for one filename have each created a session and each run
\* inference
C25_Witness ==
    \E r, q \in Requests :
       /\ r # q
       /\ req[r].filename = req[q].filename
       /\ req[r].inferred /\ req[q].inferred
       /\ req[r].session_id # req[q].session_id
       /\ \E i, j \in SessionsNamed(req[r].filename) :
             sessions[i].id = req[r].session_id /\ sessions[j].id = req[q].session_id

-----------------------------------------------------------------------------
(* Properties of the outcomes *)

\* a repository call of request r raises in this step
RepositoryFailure(r) ==
    \/ QuerySessionFails(r)
    \/ QueryTranscriptFails(r)
    \/ CreateSessionFails(r)
    \/ LookupTranscriptFails(r)
    \/ CommitSuccessFails(r)
    \/ CommitErrorFails(r)

IsServerError(o) == o.kind = "HTTPException" /\ o.status_code = 500

\* C26: a repository call that raises ends the request with HTTPException 500,
\* which is not a response; a response with success = false is returned only for
\* a failed transcribe_audio, by the step after the commit; and when the commit of
\* a successful result raises, the caller gets the HTTPException and nothing of
\* the result is stored.
C26_RepositoryFailureIsDistinct ==
    [][\A r \in Requests :
          /\ RepositoryFailure(r)
                => /\ Ends(r)
                   /\ IsServerError(req'[r].outcome)
                   /\ ~IsResponse(req'[r].outcome)
          /\ (Ends(r) /\ IsResponse(req'[r].outcome) /\ ~req'[r].outcome.success)
                => /\ req[r].pc = "commit_error"
                   /\ ~req[r].result.success
                   /\ ~RepositoryFailure(r)
          /\ (Ends(r) /\ req[r].pc = "commit_success" /\ IsServerError(req'[r].outcome))
                => /\ req[r].result.success
                   /\ transcripts' = transcripts
                   /\ sessions' = sessions]_vars

\* one request has ended with the response of a failed transcription, another
\* ran inference and ended with HTTPException 500, its session left without a
\* transcript
C26_Witness ==
    \E r, q \in Requests :
       /\ Done(r) /\ IsResponse(req[r].outcome) /\ ~req[r].outcome.success
       /\ Done(q) /\ req[q].inferred /\ IsServerError(req[q].outcome)
       /\ TranscriptsOf(transcripts, req[q].session_id) = {}

-----------------------------------------------------------------------------
(* Properties of resumption *)

\* the ids of the sessions with this filename
SessionIds(f) == {sessions[i].id : i \in SessionsNamed(f)}

\* C27: with requests handled one after the other, a request for a filename that
\* has a session takes that session and creates none; if the session has no
\* transcript the request goes on to transcribe_audio under the same session id;
\* and when it returns a successful result, the session's status is
\* `transcribed`, the session has exactly one transcript, and the response
\* carries that session id.
C27_SessionWithoutTranscriptIsResumed ==
    [][\A r \in Requests :
          /\ (Leaves(r, "query_session") /\ SessionsNamed(req[r].filename) # {})
                => \/ EndsUnexpected(r)
                   \/ /\ req'[r].pc = "query_transcript"
                      /\ req'[r].existing_session
                      /\ req'[r].session_id \in SessionIds(req[r].filename)
          /\ (Leaves(r, "query_transcript")
                /\ TranscriptsOf(transcripts, req[r].session_id) = {})
                => \/ EndsUnexpected(r)
                   \/ /\ req'[r].pc = "transcribe"
                      /\ req'[r].session_id = req[r].session_id
          /\ req[r].existing_session => Len(sessions') = Len(sessions)
          /\ (Returns(r, "commit_success") /\ req[r].existing_session)
                => /\ StatusOf(sessions', req[r].session_id) = "transcribed"
                   /\ Cardinality(TranscriptsOf(transcripts', req[r].session_id)) = 1
                   /\ req'[r].outcome.success
                   /\ req'[r].outcome.session_id = req[r].session_id
                   /\ req[r].session_id \in SessionIds(req[r].filename)]_vars

\* a request failed and left its session in `error`; the next request for the
\* filename ran inference under the same session id and succeeded; the session
\* is `transcribed` with one transcript
C27_Witness ==
    \E q, r \in Requests :
       /\ q < r
       /\ Done(q) /\ IsResponse(req[q].outcome) /\ ~req[q].outcome.success
       /\ Done(r) /\ IsResponse(req[r].outcome) /\ req[r].outcome.success
       /\ req[r].inferred
       /\ req[r].filename = req[q].filename
       /\ req[r].session_id = req[q].session_id
       /\ Len(sessions) = 1
       /\ StatusOf(sessions, req[r].session_id) = "transcribed"
       /\ Cardinality(TranscriptsOf(transcripts, req[r].session_id)) = 1

-----------------------------------------------------------------------------
(* Properties of the phases of one call *)

PhaseRank(phase) ==
    CASE phase = "ModelLoading" -> 1
      [] phase = "Preprocessing" -> 2
      [] phase = "Chunking" -> 3
      [] phase = "TranscribingChunk" -> 4
      [] phase = "Reconciling" -> 5
      [] OTHER -> 6

IsTerminal(e) == e.phase \in {"Done", "Failed"}

\* entry b may follow entry a in the trace of a call
MayFollow(a, b) ==
    IF b.phase = "Failed"
    THEN a.failed /\ a.phase \in {"ModelLoading", "Preprocessing"}
    ELSE IF IsChunkEntry(a) /\ IsChunkEntry(b)
    THEN b.chunk = a.chunk + 1
    ELSE /\ PhaseRank(b.phase) = PhaseRank(a.phase) + 1
         /\ IsChunkEntry(a) \/ ~a.failed
         /\ IsChunkEntry(b) => b.chunk = 1
         /\ b.phase = "Reconciling" => a.chunk = Len(chunks)

\* the phases of the call so far are in order, none left out, the chunks one
\* after the other from the first
PhasesInOrder ==
    /\ strace # <<>> => strace[1].phase \in {"ModelLoading", "Failed"}
    /\ \A k \in 1..(Len(strace) - 1) :
          ~IsTerminal(strace[k]) /\ MayFollow(strace[k], strace[k + 1])

\* a call has ended exactly when its trace ends in Done or Failed, and Done goes
\* with success = true, Failed with success = false
EndsDoneOrFailed ==
    /\ spc = "returned" <=> (strace # <<>> /\ IsTerminal(strace[Len(strace)]))
    /\ spc = "returned"
          => /\ sresult.returned
             /\ sresult.success <=> strace[Len(strace)].phase = "Done"
    /\ spc \notin {"returned", "idle"} => ~sresult.returned

\* each chunk's text is reconciled with the accepted texts in the pass of the loop
\* that transcribes it; what follows the loop joins the accepted texts
ReconciledInTheLoop ==
    /\ ChunkStep => SegmentTexts(segments') = full_text_parts'
    /\ (spc = "for" /\ spc' = "returned")
          => /\ si > Len(chunks)
             /\ Len(ChunkEntries) = Len(chunks)
             /\ sresult'.segments = segments
             /\ sresult'.full_text = Strip(Join(Space, full_text_parts))

\* C28, as the code has it: a call goes through model loading, preprocessing,
\* chunking and the transcription of the chunks one at a time in chunk order,
\* each chunk's text being reconciled with the accepted text in the same pass of
\* the loop, before the next chunk is transcribed; the final join follows the
\* last chunk; and the call ends in exactly one of Done (success = true) or
\* Failed (success = false).
C28_PhasesInOrder ==
    /\ [](PhasesInOrder /\ EndsDoneOrFailed)
    /\ [][ReconciledInTheLoop]_vars

\* a call over three chunks has ended Done, and the second chunk's text was
\* trimmed of the word it repeats before the third chunk was transcribed
C28_Witness ==
    /\ spc = "returned" /\ sresult.success
    /\ Len(ChunkEntries) = 3
    /\ strace[Len(strace)].phase = "Done"
    /\ ChunkEntries[1].text = <<"a", " ", "b">>
    /\ ChunkEntries[2].text = <<"b", " ", "c">>
    /\ Len(full_text_parts) >= 2 /\ full_text_parts[2] = <<"c">>

\* C28, as stated: a chunk's text is compared with the accepted text only once
\* every chunk has been transcribed.
C28_ReconciliationAfterAllChunks == [][ComparingStep => si = Len(chunks)]_vars

\* _create_audio_chunks has returned to the call in progress or just ended
Chunked == spc \in {"for", "returned"} /\ \E k \in 1..Len(strace) : strace[k].phase = "Chunking"

\* C29: once the chunks are cut, the chunks handed to the backend so far are the
\* first ones, each once and in order, whether the backend raised on them or not;
\* the call then ends successfully with every chunk handed over, and
\* chunks_processed is the number of chunks cut.
C29_EveryChunkOnceInOrder ==
    Chunked =>
        /\ \A k \in 1..Len(ChunkEntries) : ChunkEntries[k].chunk = k
        /\ Len(ChunkEntries) <= Len(chunks)
        /\ spc = "for" => Len(ChunkEntries) = si - 1
        /\ spc = "returned"
              => /\ sresult.success
                 /\ Len(ChunkEntries) = Len(chunks)
                 /\ sresult.chunks_processed = Len(chunks)

\* a call over three chunks has ended with the backend raising on the first and
\* on the last chunk, and chunks_processed is 3
C29_Witness ==
    /\ spc = "returned" /\ Chunked
    /\ Len(chunks) = 3 /\ Len(ChunkEntries) = 3
    /\ ChunkEntries[1].failed /\ ~ChunkEntries[2].failed /\ ChunkEntries[3].failed
    /\ sresult.chunks_processed = 3
    /\ Len(sresult.segments) = 1

-----------------------------------------------------------------------------
(* Properties of the segments *)

\* the segments of the call: those of the loop, or those of the result
SegmentsNow == IF spc = "returned" THEN sresult.segments ELSE segments

\* the segment has the time bounds of chunk k
HasTimesOf(seg, k) ==
    seg.start_time = chunks[k].start_time /\ seg.end_time = chunks[k].end_time

\* C30: every segment has the start and end time of a chunk, later segments of
\* later chunks, so the start times increase; and the segment appended in a pass
\* of the loop has the bounds of that pass's chunk, whether its text was trimmed
\* or not.
C30_SegmentsKeepChunkTimes ==
    /\ []((spc = "for" \/ (spc = "returned" /\ sresult.success))
            => /\ \A i \in 1..Len(SegmentsNow) :
                     \E k \in i..Len(chunks) : HasTimesOf(SegmentsNow[i], k)
               /\ \A i \in 1..(Len(SegmentsNow) - 1) :
                     SegmentsNow[i].start_time < SegmentsNow[i + 1].start_time)
    /\ [][(ChunkStep /\ segments' # segments)
            => /\ segments' = Append(segments, segments'[Len(segments')])
               /\ HasTimesOf(segments'[Len(segments')], si)
               /\ segments'[Len(segments')].text = full_text_parts'[Len(full_text_parts')]]_vars

\* a call has returned three segments, the second one trimmed to the one word
\* its chunk did not repeat and bearing the second chunk's bounds
C30_Witness ==
    /\ spc = "returned" /\ sresult.success
    /\ Len(sresult.segments) = 3 /\ Len(chunks) = 3
    /\ ChunkEntries[2].text = <<"b", " ", "c">>
    /\ sresult.segments[2].text = <<"c">>
    /\ HasTimesOf(sresult.segments[2], 2)
    /\ chunks[2].start_time > 0

-----------------------------------------------------------------------------
(* Properties of session creation *)

\* the rows of a sessions table with this filename, as indices
NamedIn(rows, f) == {i \in 1..Len(rows) : rows[i].filename = f}

\* the sessions table holds session sid with this filename and status
HoldsSession(rows, sid, f, status) ==
    \E i \in 1..Len(rows) :
       rows[i].id = sid /\ rows[i].filename = f /\ rows[i].processing_status = status

\* C31: with requests handled one after the other, a request whose lookup finds no
\* session for its filename goes on to create one; the creation commits one row,
\* with status `transcribing`, the only one of that filename; no other step of a
\* request adds a session; and when transcribe_audio is called the row is in the
\* table, still `transcribing`.
C31_NewSessionCommittedBeforeInference ==
    [][\A r \in Requests :
          /\ (Leaves(r, "query_session") /\ SessionsNamed(req[r].filename) = {})
                => \/ EndsUnexpected(r)
                   \/ req'[r].pc = "create_session" /\ ~req'[r].existing_session
          /\ (Leaves(r, "create_session") /\ ~EndsUnexpected(r))
                => /\ Len(sessions') = Len(sessions) + 1
                   /\ NamedIn(sessions', req[r].filename) = {Len(sessions')}
                   /\ HoldsSession(sessions', req'[r].session_id, req[r].filename,
                                   "transcribing")
                   /\ ~req'[r].inferred
          /\ (InFlight(r) /\ req[r].pc # "create_session")
                => Len(sessions') = Len(sessions)
          /\ (Leaves(r, "transcribe") /\ ~req[r].existing_session)
                => /\ HoldsSession(sessions, req[r].session_id, req[r].filename,
                                   "transcribing")
                   /\ Cardinality(NamedIn(sessions, req[r].filename)) = 1]_vars

\* a second request, for a filename without a session, has created its session
\* and is about to call transcribe_audio
C31_Witness ==
    \E r \in Requests :
       /\ r > 1
       /\ req[r].pc = "transcribe" /\ ~req[r].existing_session
       /\ Len(sessions) = 2
       /\ HoldsSession(sessions, req[r].session_id, req[r].filename, "transcribing")

-----------------------------------------------------------------------------
(* Properties of the chunking loop *)

\* the chunker is at work or has returned, for 0 < overlap < chunk length
CuttingWithOverlap ==
    /\ cpc \in {"loop", "done"}
    /\ 0 < overlap_length
    /\ overlap_length < chunk_length

\* C32: for 0 < overlap < chunk length the windows cut are finitely many (each
\* starts at a sample of its own, so they are never more than the samples), none
\* starts at or beyond the end of the buffer, none but the last reaches the end
\* of the buffer, and the chunker returns as soon as a window reaches it.
C32_ChunkingTerminates ==
    CuttingWithOverlap =>
        /\ Len(chunks) <= (IF audio_len = 0 THEN 1 ELSE audio_len)
        /\ \A i \in 1..Len(chunks) :
              audio_len > 0 => chunks[i].start_sample < audio_len
        /\ \A i \in 1..(Len(chunks) - 1) : chunks[i].end_sample < audio_len
        /\ (chunks # <<>> /\ chunks[Len(chunks)].end_sample >= audio_len) => cpc = "done"

\* ceil(a / b) for a >= 0 and b > 0
CeilDiv(a, b) == (a + b - 1) \div b

\* the chunker has returned for a buffer longer than one chunk, cut with an
\* overlap of fewer samples than the chunk has
CutLongBuffer ==
    /\ cpc = "done"
    /\ audio_len > chunk_samples
    /\ overlap_samples < chunk_samples

\* C33: a buffer of N samples, longer than a chunk of L samples, cut with an
\* overlap of O samples (0 <= O < L), gives exactly ceil((N - L) / (L - O)) + 1
\* chunks, each ending strictly later than the one before.
C33_ChunkCount ==
    CutLongBuffer =>
        /\ Len(chunks) = CeilDiv(audio_len - chunk_samples, chunk_samples - overlap_samples) + 1
        /\ \A i \in 1..(Len(chunks) - 1) : chunks[i].end_sample < chunks[i + 1].end_sample
        /\ \A i \in 1..(Len(chunks) - 1) : chunks[i].end_time < chunks[i + 1].end_time

\* four chunks or more, cut with an overlap, where the division leaves a remainder
C33_Witness ==
    /\ CutLongBuffer
    /\ overlap_samples > 0
    /\ Len(chunks) >= 4
    /\ (audio_len - chunk_samples) % (chunk_samples - overlap_samples) # 0

-----------------------------------------------------------------------------
(* Properties of the transcript rows *)

\* the rows the table held are the rows it holds, in place and unchanged
RowsKept(rows, rows_after) ==
    /\ Len(rows_after) >= Len(rows)
    /\ \A k \in 1..Len(rows) : rows_after[k] = rows[k]

\* C34: with requests handled one after the other, no step changes a transcript
\* row that exists; a request goes past the idempotency gate, or creates its
\* session, only while the session has no transcript, so its second lookup
\* finds none and its commit inserts a row instead of updating one.
C34_TranscriptNeverModified ==
    [][/\ RowsKept(transcripts, transcripts')
       /\ \A r \in Requests :
             /\ (Leaves(r, "query_transcript") /\ req'[r].pc = "transcribe")
                   => TranscriptsOf(transcripts, req[r].session_id) = {}
             /\ (Leaves(r, "create_session") /\ req'[r].pc = "transcribe")
                   => TranscriptsOf(transcripts', req'[r].session_id) = {}
             /\ (Leaves(r, "lookup_transcript") /\ ~EndsUnexpected(r))
                   => req'[r].existing_transcript = 0
             /\ Returns(r, "commit_success")
                   => /\ transcripts' = Append(transcripts, transcripts'[Len(transcripts')])
                      /\ req'[r].wrote = transcripts'[Len(transcripts')].id]_vars

\* a request stored a transcript of two segments, and the next request for the
\* filename ended without inference, the row as it was stored
C34_Witness ==
    \E q, r \in Requests :
       /\ q < r /\ Done(q) /\ Done(r)
       /\ req[q].filename = req[r].filename
       /\ req[q].wrote # 0 /\ req[r].wrote = 0 /\ ~req[r].inferred
       /\ IsResponse(req[r].outcome) /\ req[r].outcome.success
       /\ Len(transcripts) = 1
       /\ transcripts[1].id = req[q].wrote
       /\ Len(transcripts[1].segments) = 2
       /\ req[q].outcome.full_text = transcripts[1].full_text

\* the filename's audio file is in neither directory
AudioAbsent(f) == f \notin converted /\ f \notin originals

\* a session of the filename has a stored transcript
HasStoredTranscript(f) ==
    \E k \in 1..Len(sessions) :
       /\ sessions[k].filename = f
       /\ TranscriptsOf(transcripts, sessions[k].id) # {}

\* C35: the step that takes up a request for a filename whose audio file is in
\* neither directory ends the request as not found, before any query: it
\* changes no session, no transcript and nothing of the transcription service,
\* whether or not a transcript is stored for the filename.
C35_FileCheckPrecedesGate ==
    [][\A r \in Requests :
          (Leaves(r, "idle") /\ AudioAbsent(req'[r].filename))
             => /\ Done(r)'
                /\ req'[r].outcome = NotFoundOutcome
                /\ ~req'[r].inferred /\ req'[r].wrote = 0
                /\ req'[r].session_id = 0
                /\ sessions' = sessions /\ transcripts' = transcripts
                /\ UNCHANGED <<modelVars, callVars>>]_vars

\* a transcript is stored for the filename, the file was then removed from both
\* directories, and the next request for it ended as not found
C35_Witness ==
    \E r \in Requests :
       /\ Done(r) /\ req[r].outcome = NotFoundOutcome
       /\ AudioAbsent(req[r].filename)
       /\ HasStoredTranscript(req[r].filename)
       /\ \E k \in 1..Len(sessions) :
             /\ sessions[k].filename = req[r].filename
             /\ sessions[k].processing_status = "transcribed"

-----------------------------------------------------------------------------
(* Properties of the reconciliation across chunks without text *)

\* the chunk before the one of this step gave no text
AfterEmpty ==
    /\ Len(ChunkEntries) > 0
    /\ GaveNoText(ChunkEntries[Len(ChunkEntries)])

Smallest(S) == CHOOSE j \in S : \A k \in S : j <= k

\* the step appends the chunk's text as _transcribe_chunk returned it, with the
\* chunk's times
AcceptedUnmodified ==
    /\ full_text_parts' = Append(full_text_parts, StepText)
    /\ segments' = Append(segments, TranscriptionSegment(StepText, chunks[si]))

\* C36: a chunk with text that follows chunks without text is compared with the
\* text accepted last, which is the text of the last segment and belongs to a
\* chunk that ended before this one starts: when one to three of that text's
\* last tokens open the chunk's text the step drops them as the scan of lines
\* 237-240 does, and otherwise appends the text unmodified; the first chunk of a
\* call that has text is appended unmodified, whatever its position.
C36_ComparedAcrossEmptyChunks ==
    [][(ChunkStep /\ StepText # <<>>)
          => /\ full_text_parts = <<>> => AcceptedUnmodified
             /\ (AfterEmpty /\ full_text_parts # <<>>)
                   => /\ PrevPart = segments[Len(segments)].text
                      /\ segments[Len(segments)].end_time < chunks[si].start_time
                      /\ Matches(PrevPart, StepText) = {} => AcceptedUnmodified
                      /\ Matches(PrevPart, StepText) # {}
                            => Dropped(Smallest(Matches(PrevPart, StepText)), StepText)]_vars

\* the first chunk's text was accepted, the second chunk gave none, and the
\* third chunk's text lost the token it shares with the first chunk's
C36_Witness ==
    /\ spc = "for"
    /\ si = 4
    /\ Len(ChunkEntries) = 3
    /\ GaveText(ChunkEntries[1])
    /\ GaveNoText(ChunkEntries[2])
    /\ GaveText(ChunkEntries[3])
    /\ Matches(ChunkEntries[1].text, ChunkEntries[3].text) # {}
    /\ Len(full_text_parts) = 2
    /\ full_text_parts[1] = ChunkEntries[1].text
    /\ full_text_parts[2] # ChunkEntries[3].text
    /\ segments[2].start_time > segments[1].end_time

\* the first two chunks gave no text and the third chunk's text is the call's
\* first text, accepted as it was returned
C36_FirstTextWitness ==
    /\ spc = "for"
    /\ si = 4
    /\ Len(ChunkEntries) = 3
    /\ GaveNoText(ChunkEntries[1])
    /\ GaveNoText(ChunkEntries[2])
    /\ full_text_parts = <<ChunkEntries[3].text>>
    /\ Len(Split(full_text_parts[1])) >= 3

-----------------------------------------------------------------------------
(* Properties of a call on a missing path *)

\* the call in progress was made on a path that does not exist
MissingPath == spc # "idle" /\ sfile \notin converted

\* C37: a call of transcribe_audio on a path that does not exist returns the
\* failure of lines 188-197 at its first step: neither the start of the call nor
\* that step changes model or processor or counts a load, the call never reaches
\* the loading or any later step, and the log holds no load attempt of the call.
C37_MissingPathTouchesNoModel ==
    /\ [][(MissingPath' /\ spc' \in {"check", "returned"} /\ spc # "returned")
             => /\ model' = model /\ processor' = processor /\ loads' = loads
                /\ \A k \in 1..Len(slog') : IsLoad(slog'[k]) => k <= Len(slog)
                /\ spc = "check"
                      => /\ spc' = "returned"
                         /\ sresult' = FailedResult("Audio file not found", 0)
                         /\ strace' = <<Passed("Failed", 0, TRUE, <<>>)>>]_vars
    /\ [](MissingPath
             => /\ spc \in {"check", "returned"}
                /\ \A k \in 1..Len(slog) : IsLoad(slog[k]) => slog[k].call # ncalls
                /\ \A k \in 1..Len(strace) : strace[k].phase # "ModelLoading")

\* the second call was made on a missing path and has returned, with the model
\* loaded by the first call still resident and loaded once
C37_Witness ==
    /\ spc = "returned"
    /\ MissingPath
    /\ ncalls = 2
    /\ ~sresult.success
    /\ model /\ processor
    /\ loads = 1

\* a call on a missing path has returned and nothing was ever loaded
C37_ColdWitness ==
    /\ spc = "returned"
    /\ MissingPath
    /\ ~sresult.success
    /\ ~model /\ ~processor
    /\ loads = 0

-----------------------------------------------------------------------------
(* Properties of the file monitor *)

\* the observations of mlog before number k that are of the same file
EarlierOf(k) == {j \in 1..(k - 1) : mlog[j].id = mlog[k].id}

\* the observation of the same file just before number k, 0 if there is none
PrevOf(k) == Largest(EarlierOf(k) \cup {0})

\* observation k is the first of its file, or reports another size than the
\* observation of the file before it
StartsWait(k) == PrevOf(k) = 0 \/ mlog[PrevOf(k)].size # mlog[k].size

\* the observation at which the wait that observation k is in began
SinceOf(k) == Largest({c \in EarlierOf(k) \cup {k} : StartsWait(c)})

\* the seconds the file has kept its size at observation k
WaitedAt(k) == mlog[k].time - mlog[SinceOf(k)].time

\* C38: is_file_complete returns True for a file only at an observation that is
\* not the file's first, reports the size of the observation before it, and
\* comes more than completion_wait_seconds after the observation at which the
\* file was first seen or last reported another size; the first observation of
\* a file and an observation that reports another size return False.
C38_CompleteOnlyWhenStable ==
    \A k \in 1..Len(mlog) :
       /\ mlog[k].ret
             => /\ PrevOf(k) # 0
                /\ mlog[k].size = mlog[PrevOf(k)].size
                /\ WaitedAt(k) > completion_wait_seconds
       /\ StartsWait(k) => ~mlog[k].ret

\* a file was seen, reported another size at a later observation, and was
\* found complete more than completion_wait_seconds after that one
C38_Witness ==
    \E k \in 1..Len(mlog) :
       /\ mlog[k].ret
       /\ \E j \in EarlierOf(k) : j # SinceOf(k) /\ j < SinceOf(k)
       /\ mlog[k].time - mlog[Smallest(EarlierOf(k))].time > WaitedAt(k)

\* a file that kept its size for exactly completion_wait_seconds was not found
\* complete
C38_AtWaitWitness ==
    \E k \in 1..Len(mlog) :
       /\ ~mlog[k].ret
       /\ ~StartsWait(k)
       /\ WaitedAt(k) = completion_wait_seconds

\* a file reported another size more than completion_wait_seconds after it was
\* first seen, and was not found complete
C38_RestartWitness ==
    \E k \in 1..Len(mlog) :
       /\ ~mlog[k].ret
       /\ PrevOf(k) # 0
       /\ StartsWait(k)
       /\ mlog[k].time - mlog[PrevOf(k)].time > completion_wait_seconds

\* the places (call, position) at which a call of scan_for_new_files returned id
ReturnsOf(id) ==
    {<<k, n>> \in (1..Len(mret)) \X (1..Cardinality(FileIds)) :
        n <= Len(mret[k]) /\ mret[k][n] = id}

\* is_file_complete returned True for id in call k of scan_for_new_files
HeldIn(k, id) ==
    \E j \in 1..Len(mlog) : mlog[j].scan = k /\ mlog[j].id = id /\ mlog[j].ret

\* process_new_file has returned this status for id
Processed(id, status) ==
    \E j \in 1..Len(mproc) : mproc[j].file_id = id /\ mproc[j].status = status

\* C39: over all the calls of scan_for_new_files made so far, no file id was
\* returned twice, every id returned was returned by a call in which
\* is_file_complete returned True for it, every id returned is in known_files,
\* and no step takes an id out of known_files, whatever process_new_file makes
\* of the file.
C39_ReturnedAtMostOnce ==
    /\ [](\A id \in FileIds :
             /\ Cardinality(ReturnsOf(id)) <= 1
             /\ \A p \in ReturnsOf(id) : HeldIn(p[1], id)
             /\ ReturnsOf(id) # {} => id \in known_files)
    /\ [][known_files \subseteq known_files' /\ Len(mret') >= Len(mret)]_vars

\* a file was returned by the second call, its download failed, the third call
\* found it complete again and did not return it
C39_Witness ==
    \E id \in FileIds :
       /\ ReturnsOf(id) = {<<2, 1>>}
       /\ Processed(id, "download_failed")
       /\ HeldIn(3, id)
       /\ Len(mret) = 3
       /\ mret[3] = <<>>

\* one call returned both files
C39_BothWitness ==
    \E k \in 1..Len(mret) : Len(mret[k]) = 2 /\ mret[k][1] # mret[k][2]

-----------------------------------------------------------------------------
(* Properties of the download with retries *)

\* pass number k of the log downloaded the file and the file passed validation
GoodPass(k) == dlog[k].downloaded /\ dlog[k].valid

\* the file was there with the expected size
AsExpected(file) == file.exists /\ file.size = expected_size

\* C40: a call of _download_file_with_retry makes at most max_retries passes,
\* numbered from 0 in order; no pass follows a pass that downloaded the file and
\* validated it; the call returns True exactly if its last pass did, and False
\* only after max_retries passes without one; a pass is valid only if it left a
\* file of the expected size, and a pass whose download failed validation
\* leaves no file at local_path for the pass after it.
C40_RetryUntilValid ==
    /\ Len(dlog) <= max_retries
    /\ \A k \in 1..Len(dlog) :
          /\ dlog[k].attempt = k - 1
          /\ GoodPass(k) => k = Len(dlog)
          /\ dlog[k].valid => dlog[k].downloaded /\ AsExpected(dlog[k].left)
          /\ (dlog[k].downloaded /\ ~dlog[k].valid) => ~dlog[k].left.exists
    /\ dpc = "returned"
          => /\ dret = (Len(dlog) > 0 /\ GoodPass(Len(dlog)))
             /\ dret = FALSE => Len(dlog) = max_retries
             /\ dret = TRUE => AsExpected(local_file)
    /\ (Len(dlog) > 0 /\ GoodPass(Len(dlog))) => dpc = "returned"
    /\ (dpc = "for" /\ Len(dlog) > 0 /\ dlog[Len(dlog)].downloaded) => ~local_file.exists

\* the third of three passes downloaded and validated the file, after a pass
\* whose download failed and a pass whose download did not pass validation
C40_Witness ==
    /\ dpc = "returned"
    /\ dret = TRUE
    /\ max_retries = 3
    /\ Len(dlog) = 3
    /\ ~dlog[1].downloaded
    /\ dlog[2].downloaded /\ ~dlog[2].valid
    /\ GoodPass(3)
    /\ slept = 3

\* three passes, the last with a download that did not pass validation;
\* the call returned False and left no file
C40_FailedWitness ==
    /\ dpc = "returned"
    /\ dret = FALSE
    /\ max_retries = 3
    /\ Len(dlog) = 3
    /\ dlog[3].downloaded /\ ~dlog[3].valid
    /\ ~local_file.exists

\* the first pass succeeded and the call returned with passes to spare
C40_FirstPassWitness ==
    /\ dpc = "returned"
    /\ dret = TRUE
    /\ max_retries = 3
    /\ Len(dlog) = 1

====
